---- MODULE Spec2Model ----
(***************************************************************************)
(* A model of go-network-file: the offset-caching multiplexers             *)
(* (concurrentReadSeeker / concurrentWriteSeeker), the FileServer registry *)
(* and request handlers, and the client-side Reader / Writer adapters.     *)
(***************************************************************************)
EXTENDS Integers, Sequences, FiniteSets, TLC

(***************************************************************************)
(* Bounds of the model.                                                    *)
(***************************************************************************)
MaxSize == 3      \* longest initial content of a handle
MaxOff == 2       \* largest offset passed to a seek / carried in a range
MaxLen == 2       \* longest buffer / chunk / declared length
MaxCur == 2       \* cursors handed out per run
MaxFile == 4      \* writes stop where the file would grow beyond this length
MaxReq == 2       \* requests served at the same time

(***************************************************************************)
(* Program constants.                                                      *)
(***************************************************************************)
SeekStart == 0
SeekCurrent == 1
SeekEnd == 2
MinumumBufferSize == 1

NoCursor == 0
NoMux == 0
NoHandle == "none"

NoErr == "nil"
EOF == "EOF"
ErrInvalid == "invalid argument"
ErrClosed == "file already closed"

Min(a, b) == IF a < b THEN a ELSE b
Max(a, b) == IF a > b THEN a ELSE b

DataBytes == {1, 2}
\* the chunks a writer sends: one byte value repeated
Chunks == { [i \in 1..n |-> b] : n \in 1..MaxLen, b \in DataBytes }
\* a content whose bytes identify their position
Pattern(n) == [i \in 1..n |-> ((i - 1) % 3) + 1]

(***************************************************************************)
(* The underlying handle: an *os.File, seen through Seek / Read / Write /  *)
(* Close.  A handle is [content, pos, closed, stat]; stat tells whether    *)
(* the handle has a Stat method (is a Statter), as an *os.File has.        *)
(***************************************************************************)
NewHandle(content) == [content |-> content, pos |-> 0, closed |-> 0,
                       stat |-> TRUE]

\* an io.ReadSeeker / io.WriteSeeker that is not a Statter
PlainHandle(content) == [NewHandle(content) EXCEPT !.stat = FALSE]

\* (*os.File).Seek: returns the new absolute position, or (0, err)
h_Seek(hd, offset, whence) ==
    LET base == CASE whence = SeekStart -> 0
                  [] whence = SeekCurrent -> hd.pos
                  [] whence = SeekEnd -> Len(hd.content)
                  [] OTHER -> 0
        target == base + offset
    IN  IF hd.closed > 0
          THEN [hd |-> hd, n |-> 0, err |-> ErrClosed]
        ELSE IF whence \notin {SeekStart, SeekCurrent, SeekEnd} \/ target < 0
          THEN [hd |-> hd, n |-> 0, err |-> ErrInvalid]
        ELSE [hd |-> [hd EXCEPT !.pos = target], n |-> target, err |-> NoErr]

\* (*os.File).Read into a buffer of plen bytes; k is the number of bytes the
\* call chooses to deliver (a read may be short), at least one when
\* any are left
h_Read(hd, plen, k) ==
    LET avail == Max(Len(hd.content) - hd.pos, 0)
        n == Min(Min(Max(k, 1), plen), avail)
    IN  IF hd.closed > 0
          THEN [hd |-> hd, n |-> 0, out |-> << >>, err |-> ErrClosed]
        ELSE IF plen = 0
          THEN [hd |-> hd, n |-> 0, out |-> << >>, err |-> NoErr]
        ELSE IF avail = 0
          THEN [hd |-> hd, n |-> 0, out |-> << >>, err |-> EOF]
        ELSE [hd |-> [hd EXCEPT !.pos = hd.pos + n], n |-> n,
              out |-> SubSeq(hd.content, hd.pos + 1, hd.pos + n),
              err |-> NoErr]

\* the bytes of a file after p is stored at position at (a hole reads as 0)
StoreAt(content, at, p) ==
    LET newLen == IF p = << >> THEN Len(content)
                  ELSE Max(Len(content), at + Len(p))
    IN  [i \in 1..newLen |->
            IF i > at /\ i <= at + Len(p) THEN p[i - at]
            ELSE IF i <= Len(content) THEN content[i]
            ELSE 0]

\* (*os.File).Write at the current position
h_Write(hd, p) ==
    IF hd.closed > 0
      THEN [hd |-> hd, n |-> 0, err |-> ErrClosed]
    ELSE [hd |-> [hd EXCEPT !.content = StoreAt(hd.content, hd.pos, p),
                            !.pos = hd.pos + Len(p)],
          n |-> Len(p), err |-> NoErr]

\* (*os.File).Close
h_Close(hd) == [hd EXCEPT !.closed = hd.closed + 1]

(***************************************************************************)
(* State.                                                                  *)
(***************************************************************************)
VARIABLES
    handles,    \* the underlying handles, by name
    mux,        \* the multiplexers: [kind, h, lastChange]
    cur,        \* the cursors (readSeeker / writeSeeker): [parent, offset]
    last,       \* the last cursor operation: what it was given and returned
    logical,    \* each cursor's position as a caller of Seek/Read/Write sees it
    ref,        \* the file as positioned reads/writes (ReadAt/WriteAt) leave it
    readers,    \* FileServer.readers: fileID -> multiplexer
    writers,    \* FileServer.writers: fileID -> multiplexer
    fs,         \* the FileServer's feature flags
    req,        \* the requests being served, with their responses
    waiters,    \* the goroutines waiting on a registration's ctx.Done()
    ctxDone,    \* the contexts that are cancelled or expired
    lastReg,    \* the last ServeFileReader / ServeFileWriter call and its result
    cli,        \* the client-side Reader / Writer adapters
    locks,      \* FileServer.mu and each multiplexer's mu: who holds them
    thr,        \* the goroutines followed lock by lock: where each one is
    io          \* the operation on an underlying handle made last, and by whom

Handles == {"h1", "h2"}
MuxIds == 1..2
CurIds == 1..MaxCur
ReqIds == 1..MaxReq
FileIDs == {<<"a">>}
Ctxs == {"background", "ctx1", "ctx2"}

urlPrefix == <<"/", "p">>
sharedSecret == "blurp"

FreeMux == [kind |-> "free", h |-> NoHandle, lastChange |-> NoCursor]
FreeCur == [parent |-> NoMux, offset |-> 0]
NoOp == [op |-> "none", c |-> NoCursor, off |-> 0, arg |-> << >>, plen |-> 0,
         out |-> << >>, n |-> 0, err |-> NoErr, sought |-> FALSE]

\* the part of the state the multiplexer code works on
St == [handles |-> handles, mux |-> mux, cur |-> cur]
SetSt(s) == /\ handles' = s.handles
            /\ mux' = s.mux
            /\ cur' = s.cur

(***************************************************************************)
(* The locks.  FileServer.mu is a sync.RWMutex: w is the goroutine that    *)
(* holds it exclusively (Lock), r the goroutines that hold it shared       *)
(* (RLock).  Each multiplexer has a sync.Mutex mu.  The specifications     *)
(* that take a handler's operation as one step under its lock leave these  *)
(* variables alone; SpecLock follows the goroutines lock by lock.          *)
(***************************************************************************)
lockVars == <<locks, thr, io>>

NoThread == "nobody"
\* two requests, a registration, and the waiter of the first registration
Threads == {"q1", "q2", "reg", "wt"}

NoLocks == [fs |-> [w |-> NoThread, r |-> {}],
            mux |-> [m \in MuxIds |-> NoThread]]
\* after is where the goroutine goes on once the lock it is about to take, or
\* to give back, is taken or given back
IdleThread == [pc |-> "idle", method |-> "", m |-> NoMux, c |-> NoCursor,
               h |-> NoHandle, kind |-> "", after |-> "idle"]
NoIO == [ops |-> {}, h |-> NoHandle, by |-> NoThread, calls |-> 0]

LockIdle ==
    /\ locks = NoLocks
    /\ thr = [t \in Threads |-> IdleThread]
    /\ io = NoIO

HandleOf(s, c) == s.mux[s.cur[c].parent].h

\* &concurrentReadSeeker{rdr: file} / &concurrentWriteSeeker{wrtr: file}
newMux(s, m, kind, h) ==
    [s EXCEPT !.mux[m] = [kind |-> kind, h |-> h, lastChange |-> NoCursor]]

\* concurrentReadSeeker.New / concurrentWriteSeeker.New: cursor c, offset 0
mux_New(s, m, c) ==
    [s EXCEPT !.cur[c] = [parent |-> m, offset |-> 0]]

\* a Seek that records the offset without moving the handle
cursor_Seek_CacheOnly(s, c, offset, whence) ==
    LET m == s.cur[c].parent
    IN  [s |-> [s EXCEPT !.mux[m].lastChange = c, !.cur[c].offset = offset],
         n |-> offset, err |-> NoErr]

\* readSeeker.Seek / writeSeeker.Seek
cursor_Seek(s, c, offset, whence) ==
    LET m == s.cur[c].parent
        h == s.mux[m].h
        sk == h_Seek(s.handles[h], offset, whence)
    IN  [s |-> [s EXCEPT !.mux[m].lastChange = c,
                         !.handles[h] = sk.hd,
                         !.cur[c].offset = sk.n],
         n |-> sk.n, err |-> sk.err]

\* readSeeker.Read without the repositioning seek
readSeeker_Read_NoSeek(s, c, plen, k) ==
    LET m == s.cur[c].parent
        h == s.mux[m].h
        rd == h_Read(s.handles[h], plen, k)
    IN  [s |-> [s EXCEPT !.mux[m].lastChange = c,
                         !.handles[h] = rd.hd,
                         !.cur[c].offset = s.cur[c].offset + rd.n],
         n |-> rd.n, out |-> rd.out, err |-> rd.err, sought |-> FALSE]

\* readSeeker.Read with a buffer of plen bytes
readSeeker_Read(s, c, plen, k) ==
    LET m == s.cur[c].parent
        h == s.mux[m].h
        mustSeek == s.mux[m].lastChange # c
        sk == h_Seek(s.handles[h], s.cur[c].offset, SeekStart)
        hd1 == IF mustSeek THEN sk.hd ELSE s.handles[h]
        off1 == IF mustSeek THEN sk.n ELSE s.cur[c].offset
        rd == h_Read(hd1, plen, k)
    IN  IF mustSeek /\ sk.err # NoErr
          THEN [s |-> [s EXCEPT !.cur[c].offset = sk.n],
                n |-> 0, out |-> << >>, err |-> sk.err, sought |-> TRUE]
        ELSE [s |-> [s EXCEPT !.mux[m].lastChange = c,
                              !.handles[h] = rd.hd,
                              !.cur[c].offset = off1 + rd.n],
              n |-> rd.n, out |-> rd.out, err |-> rd.err, sought |-> mustSeek]

\* writeSeeker.Write without the repositioning seek
writeSeeker_Write_NoSeek(s, c, p) ==
    LET m == s.cur[c].parent
        h == s.mux[m].h
        wr == h_Write(s.handles[h], p)
    IN  [s |-> [s EXCEPT !.mux[m].lastChange = c,
                         !.handles[h] = wr.hd,
                         !.cur[c].offset = s.cur[c].offset + wr.n],
         n |-> wr.n, err |-> wr.err, sought |-> FALSE]

\* writeSeeker.Write that repositions the handle on every call
writeSeeker_Write_AlwaysSeek(s, c, p) ==
    LET m == s.cur[c].parent
        h == s.mux[m].h
        sk == h_Seek(s.handles[h], s.cur[c].offset, SeekStart)
        wr == h_Write(sk.hd, p)
    IN  IF sk.err # NoErr
          THEN [s |-> [s EXCEPT !.cur[c].offset = sk.n],
                n |-> 0, err |-> sk.err, sought |-> TRUE]
        ELSE [s |-> [s EXCEPT !.mux[m].lastChange = c,
                              !.handles[h] = wr.hd,
                              !.cur[c].offset = sk.n + wr.n],
              n |-> wr.n, err |-> wr.err, sought |-> TRUE]

\* writeSeeker.Write
writeSeeker_Write(s, c, p) ==
    LET m == s.cur[c].parent
        h == s.mux[m].h
        mustSeek == s.mux[m].lastChange # c
        sk == h_Seek(s.handles[h], s.cur[c].offset, SeekStart)
        hd1 == IF mustSeek THEN sk.hd ELSE s.handles[h]
        off1 == IF mustSeek THEN sk.n ELSE s.cur[c].offset
        wr == h_Write(hd1, p)
    IN  IF mustSeek /\ sk.err # NoErr
          THEN [s |-> [s EXCEPT !.cur[c].offset = sk.n],
                n |-> 0, err |-> sk.err, sought |-> TRUE]
        ELSE [s |-> [s EXCEPT !.mux[m].lastChange = c,
                              !.handles[h] = wr.hd,
                              !.cur[c].offset = off1 + wr.n],
              n |-> wr.n, err |-> wr.err, sought |-> mustSeek]

\* the smallest cursor not handed out yet
FreshCur(s) == CHOOSE c \in CurIds :
                  /\ s.cur[c].parent = NoMux
                  /\ \A d \in CurIds : s.cur[d].parent = NoMux => c <= d
HasFreshCur(s) == \E c \in CurIds : s.cur[c].parent = NoMux

(***************************************************************************)
(* Text: header values and paths are sequences of one-character strings.   *)
(***************************************************************************)
Digits == <<"0", "1", "2", "3", "4", "5", "6", "7", "8", "9">>
IsDigit(ch) == \E i \in 1..10 : Digits[i] = ch
DigitVal(ch) == (CHOOSE i \in 1..10 : Digits[i] = ch) - 1

\* fmt.Sprintf("%d", n)
RECURSIVE Itoa(_)
Itoa(n) == IF n < 0 THEN <<"-">> \o Itoa(0 - n)
           ELSE IF n < 10 THEN <<Digits[n + 1]>>
           ELSE Itoa(n \div 10) \o <<Digits[(n % 10) + 1]>>

\* fmt.Sprintf("%d-%d", offset, length)
FormatRange(offset, length) == Itoa(offset) \o <<"-">> \o Itoa(length)

\* the digits of s from index i on: [val, next], acc the value so far
RECURSIVE ScanDigits(_, _, _)
ScanDigits(s, i, acc) ==
    IF i <= Len(s) /\ IsDigit(s[i])
      THEN ScanDigits(s, i + 1, acc * 10 + DigitVal(s[i]))
      ELSE [val |-> acc, next |-> i]

\* the %d verb of fmt.Sscanf at index i: an optional sign, then digits
ScanInt(s, i) ==
    LET signed == i <= Len(s) /\ s[i] \in {"+", "-"}
        j == IF signed THEN i + 1 ELSE i
        d == ScanDigits(s, j, 0)
    IN  IF d.next = j THEN [ok |-> FALSE, val |-> 0, next |-> i]
        ELSE [ok |-> TRUE,
              val |-> IF signed /\ s[i] = "-" THEN 0 - d.val ELSE d.val,
              next |-> d.next]

\* fmt.Sscanf(s, "%d-%d", &offset, &length): ok when both were scanned
ScanRange(s) ==
    LET a == ScanInt(s, 1)
        dash == a.ok /\ a.next <= Len(s) /\ s[a.next] = "-"
        b == ScanInt(s, a.next + 1)
    IN  IF dash /\ b.ok THEN [ok |-> TRUE, offset |-> a.val, length |-> b.val]
        ELSE [ok |-> FALSE, offset |-> 0, length |-> 0]

\* strings.HasPrefix / strings.TrimPrefix
HasPrefix(s, prefix) ==
    Len(s) >= Len(prefix) /\ SubSeq(s, 1, Len(prefix)) = prefix
TrimPrefix(s, prefix) ==
    IF HasPrefix(s, prefix) THEN SubSeq(s, Len(prefix) + 1, Len(s)) ELSE s

(***************************************************************************)
(* Status codes and the error/status maps.                                 *)
(***************************************************************************)
StatusOK == 200
StatusNoContent == 204
StatusPartialContent == 206
StatusBadRequest == 400
StatusUnauthorized == 401
StatusForbidden == 403
StatusNotFound == 404
StatusMethodNotAllowed == 405
StatusInternalServerError == 500
HTTPCodeEOF == 480
HTTPCodeUnexpectedEOF == 481
HTTPCodeShortBuffer == 482
HTTPCodeShortWrite == 483
HTTPCodeClosedPipe == 484
HTTPCodeNoProgress == 486
HTTPCodeUnknownError == 490
HTTPCodeUnsupportedOperation == 491

ErrUnsupportedOperation == "unsupported operation"
ErrUnauthorized == "unauthorized: wrong secret key"
ErrUnknownFile == "not found: unknown file"
ErrFileIDTaken == "fileID is already being used"
ErrUnexpectedEOF == "unexpected EOF"
ErrShortBuffer == "short buffer"
ErrShortWrite == "short write"
ErrClosedPipe == "io: read/write on closed pipe"
ErrNoProgress == "multiple Read calls return no data or error"

\* the map with the codes of io.ErrShortBuffer and io.ErrShortWrite exchanged
errToHTTPCode_ShortSwapped ==
    [e \in {ErrUnauthorized, ErrUnknownFile, EOF, ErrUnexpectedEOF,
            ErrShortBuffer, ErrShortWrite, ErrClosedPipe, ErrNoProgress,
            ErrUnsupportedOperation} |->
        CASE e = ErrUnauthorized -> StatusUnauthorized
          [] e = ErrUnknownFile -> StatusNotFound
          [] e = EOF -> HTTPCodeEOF
          [] e = ErrUnexpectedEOF -> HTTPCodeUnexpectedEOF
          [] e = ErrShortBuffer -> HTTPCodeShortWrite
          [] e = ErrShortWrite -> HTTPCodeShortBuffer
          [] e = ErrClosedPipe -> HTTPCodeClosedPipe
          [] e = ErrNoProgress -> HTTPCodeNoProgress
          [] OTHER -> HTTPCodeUnsupportedOperation]

errToHTTPCode ==
    [e \in {ErrUnauthorized, ErrUnknownFile, EOF, ErrUnexpectedEOF,
            ErrShortBuffer, ErrShortWrite, ErrClosedPipe, ErrNoProgress,
            ErrUnsupportedOperation} |->
        CASE e = ErrUnauthorized -> StatusUnauthorized
          [] e = ErrUnknownFile -> StatusNotFound
          [] e = EOF -> HTTPCodeEOF
          [] e = ErrUnexpectedEOF -> HTTPCodeUnexpectedEOF
          [] e = ErrShortBuffer -> HTTPCodeShortBuffer
          [] e = ErrShortWrite -> HTTPCodeShortWrite
          [] e = ErrClosedPipe -> HTTPCodeClosedPipe
          [] e = ErrNoProgress -> HTTPCodeNoProgress
          [] OTHER -> HTTPCodeUnsupportedOperation]

HTTPCodeToErr ==
    [code \in {StatusUnauthorized, StatusNotFound, HTTPCodeEOF,
               HTTPCodeUnexpectedEOF, HTTPCodeShortBuffer, HTTPCodeShortWrite,
               HTTPCodeClosedPipe, HTTPCodeNoProgress,
               HTTPCodeUnsupportedOperation} |->
        CASE code = StatusUnauthorized -> ErrUnauthorized
          [] code = StatusNotFound -> ErrUnknownFile
          [] code = HTTPCodeEOF -> EOF
          [] code = HTTPCodeUnexpectedEOF -> ErrUnexpectedEOF
          [] code = HTTPCodeShortBuffer -> ErrShortBuffer
          [] code = HTTPCodeShortWrite -> ErrShortWrite
          [] code = HTTPCodeClosedPipe -> ErrClosedPipe
          [] code = HTTPCodeNoProgress -> ErrNoProgress
          [] OTHER -> ErrUnsupportedOperation]

ErrUnknownRemote == "an unknown error occurred"

\* responseCodeToError
responseCodeToError(status, expected) ==
    IF status = expected THEN NoErr
    ELSE IF status \in DOMAIN HTTPCodeToErr THEN HTTPCodeToErr[status]
    ELSE ErrUnknownRemote

(***************************************************************************)
(* A request being served, and its response.                               *)
(*   status 0: no status line written yet.  xr: the X-Range response       *)
(*   header as sent.  out: the body bytes, msg: a body that is a text.     *)
(*   path, header, query, xrange: the request as it came in.               *)
(*   clen: the Content-Length response header the handler set in time,     *)
(*   json: a body that is a JSON document.                                 *)
(***************************************************************************)
IdleReq == [pc |-> "idle", method |-> "", fileID |-> << >>, off |-> 0,
            length |-> 0, body |-> << >>, c |-> NoCursor, m |-> NoMux,
            h |-> NoHandle, n |-> 0, left |-> 0, status |-> 0, xr |-> << >>,
            out |-> << >>, msg |-> "", aborted |-> FALSE, touched |-> FALSE,
            name |-> << >>, size |-> 0, path |-> << >>, header |-> "",
            query |-> "", xrange |-> << >>, clen |-> << >>, json |-> << >>]

\* http.ResponseWriter.WriteHeader: the first status written is the one sent
WriteHeader(q, code) == IF q.status = 0 THEN [q EXCEPT !.status = code] ELSE q

\* resp.Header().Set(HeaderRange, v): headers go out with the status line
SetHeaderRange(q, v) == IF q.status = 0 THEN [q EXCEPT !.xr = v] ELSE q

\* resp.Header().Set(HeaderContentLength, v)
SetHeaderContentLength(q, v) == IF q.status = 0 THEN [q EXCEPT !.clen = v] ELSE q

\* resp.Write of a text
WriteText(q, text) == [WriteHeader(q, StatusOK) EXCEPT !.msg = text]

\* resp.Write of bytes
WriteBytes(q, p) == [WriteHeader(q, StatusOK) EXCEPT !.out = q.out \o p]

\* the handler returns: the request holds no cursor or handle any more
Done(q) == [q EXCEPT !.pc = "done", !.c = NoCursor, !.m = NoMux,
                     !.h = NoHandle, !.left = 0, !.body = << >>]

\* writeErrorToResponseWriter
writeErrorToResponseWriter(q, err) ==
    IF err \in DOMAIN errToHTTPCode
      THEN WriteHeader(q, errToHTTPCode[err])
      ELSE WriteText(WriteHeader(q, HTTPCodeUnknownError), err)

(***************************************************************************)
(* The FileServer.                                                         *)
(***************************************************************************)
\* NewFileServer: every feature allowed
DefaultFlags == [allowStat |-> TRUE, allowClose |-> TRUE, allowFullGET |-> TRUE,
                 allowPUT |-> TRUE, discloseFilenames |-> TRUE,
                 closeReaders |-> TRUE, closeWriters |-> TRUE]

\* the state the server code works on; St is its multiplexer part
W == [handles |-> handles, mux |-> mux, cur |-> cur,
      readers |-> readers, writers |-> writers]
SetW(w) == /\ handles' = w.handles
           /\ mux' = w.mux
           /\ cur' = w.cur
           /\ readers' = w.readers
           /\ writers' = w.writers

\* fs.readers[fileID] / fs.writers[fileID]: nil for a key that is not there
Lookup(map, fileID) == IF fileID \in DOMAIN map THEN map[fileID] ELSE NoMux

\* the smallest multiplexer slot not in use
FreshMux(w) == CHOOSE m \in MuxIds :
                  /\ w.mux[m].kind = "free"
                  /\ \A k \in MuxIds : w.mux[k].kind = "free" => m <= k
HasFreshMux(w) == \E m \in MuxIds : w.mux[m].kind = "free"

\* closeReader that closes the reader and leaves it in the map
closeReader_NoDelete(w, f, fileID) ==
    IF Lookup(w.readers, fileID) = NoMux THEN [w |-> w, ok |-> FALSE]
    ELSE LET h == w.mux[w.readers[fileID]].h
         IN  [w |-> IF f.closeReaders
                      THEN [w EXCEPT !.handles[h] = h_Close(w.handles[h])]
                      ELSE w,
              ok |-> TRUE]

\* closeReader that keeps the reader when its Close returns an error
closeReader_KeepOnError(w, f, fileID) ==
    IF Lookup(w.readers, fileID) = NoMux THEN [w |-> w, ok |-> FALSE]
    ELSE LET h == w.mux[w.readers[fileID]].h
             w1 == IF f.closeReaders
                     THEN [w EXCEPT !.handles[h] = h_Close(w.handles[h])]
                     ELSE w
         IN  IF f.closeReaders /\ w.handles[h].closed > 0
               THEN [w |-> w1, ok |-> FALSE]
               ELSE [w |-> [w1 EXCEPT !.readers[fileID] = NoMux], ok |-> TRUE]

\* closeReader: closes and removes a reader, the full lock held
closeReader(w, f, fileID) ==
    IF Lookup(w.readers, fileID) = NoMux THEN [w |-> w, ok |-> FALSE]
    ELSE LET h == w.mux[w.readers[fileID]].h
             w1 == IF f.closeReaders
                     THEN [w EXCEPT !.handles[h] = h_Close(w.handles[h])]
                     ELSE w
         IN  [w |-> [w1 EXCEPT !.readers[fileID] = NoMux], ok |-> TRUE]

\* closeWriter: closes and removes a writer, the full lock held
closeWriter(w, f, fileID) ==
    IF Lookup(w.writers, fileID) = NoMux THEN [w |-> w, ok |-> FALSE]
    ELSE LET h == w.mux[w.writers[fileID]].h
             w1 == IF f.closeWriters
                     THEN [w EXCEPT !.handles[h] = h_Close(w.handles[h])]
                     ELSE w
         IN  [w |-> [w1 EXCEPT !.writers[fileID] = NoMux], ok |-> TRUE]

\* requestOffsetAndLength that lets every length pass
requestOffsetAndLength_AnyLength(q, byteRange) ==
    LET sc == ScanRange(byteRange)
    IN  IF ~sc.ok
          THEN [q |-> WriteText(WriteHeader(q, StatusBadRequest),
                                "error parsing range header"), ok |-> FALSE]
        ELSE IF sc.offset < 0
          THEN [q |-> WriteText(WriteHeader(q, StatusBadRequest),
                                "invalid offset"), ok |-> FALSE]
        ELSE [q |-> [q EXCEPT !.off = sc.offset, !.length = sc.length],
              ok |-> TRUE]

\* requestOffsetAndLength: the X-Range request header
requestOffsetAndLength(q, byteRange) ==
    LET sc == ScanRange(byteRange)
    IN  IF ~sc.ok
          THEN [q |-> WriteText(WriteHeader(q, StatusBadRequest),
                                "error parsing range header"), ok |-> FALSE]
        ELSE IF sc.offset < 0
          THEN [q |-> WriteText(WriteHeader(q, StatusBadRequest),
                                "invalid offset"), ok |-> FALSE]
        ELSE IF sc.length < MinumumBufferSize
          THEN [q |-> WriteText(WriteHeader(q, StatusBadRequest),
                                "invalid buffer length"), ok |-> FALSE]
        ELSE [q |-> [q EXCEPT !.off = sc.offset, !.length = sc.length],
              ok |-> TRUE]

\* statFile that selects the writer's handle before the reader's
handleFileOptions_WriterFirst(w, f, q) ==
    LET reader == Lookup(w.readers, q.fileID)
        writer == Lookup(w.writers, q.fileID)
        handle == IF writer # NoMux THEN w.mux[writer].h
                  ELSE IF reader # NoMux THEN w.mux[reader].h
                  ELSE NoHandle
    IN  IF ~f.allowStat
          THEN [w |-> w, q |-> Done(writeErrorToResponseWriter(q, ErrUnsupportedOperation))]
        ELSE IF handle = NoHandle
          THEN [w |-> w, q |-> Done(writeErrorToResponseWriter(q, ErrUnknownFile))]
        ELSE [w |-> w, q |-> [q EXCEPT !.pc = "stat", !.h = handle]]

\* statFile, up to the handle it selects (the read lock held for the lookup)
handleFileOptions(w, f, q) ==
    LET reader == Lookup(w.readers, q.fileID)
        writer == Lookup(w.writers, q.fileID)
        handle == IF reader # NoMux THEN w.mux[reader].h
                  ELSE IF writer # NoMux THEN w.mux[writer].h
                  ELSE NoHandle
    IN  IF ~f.allowStat
          THEN [w |-> w, q |-> Done(writeErrorToResponseWriter(q, ErrUnsupportedOperation))]
        ELSE IF handle = NoHandle
          THEN [w |-> w, q |-> Done(writeErrorToResponseWriter(q, ErrUnknownFile))]
        ELSE [w |-> w, q |-> [q EXCEPT !.pc = "stat", !.h = handle]]

\* handleReadFile, up to the cursor it creates
handleReadFile(w, f, q, xrange) ==
    LET reader == Lookup(w.readers, q.fileID)
        c == FreshCur(w)
        rg == requestOffsetAndLength(q, xrange)
    IN  IF reader = NoMux
          THEN [w |-> w, q |-> Done(WriteHeader(q, StatusNotFound))]
        ELSE IF f.allowFullGET /\ xrange = << >>
          THEN [w |-> mux_New(w, reader, c),
                q |-> [q EXCEPT !.pc = "sc_sniff", !.c = c]]
        ELSE IF ~rg.ok THEN [w |-> w, q |-> Done(rg.q)]
        ELSE [w |-> mux_New(w, reader, c),
              q |-> [WriteHeader(rg.q, StatusPartialContent)
                        EXCEPT !.pc = "rd_seek", !.c = c, !.left = rg.q.length]]

\* handleWriteFile, up to the cursor it creates
handleWriteFile(w, f, q, xrange) ==
    LET writer == Lookup(w.writers, q.fileID)
        c == FreshCur(w)
        rg == requestOffsetAndLength(q, xrange)
    IN  IF ~rg.ok THEN [w |-> w, q |-> Done(rg.q)]
        ELSE IF writer = NoMux
          THEN [w |-> w, q |-> Done(WriteHeader(rg.q, StatusNotFound))]
        ELSE [w |-> mux_New(w, writer, c),
              q |-> [rg.q EXCEPT !.pc = "wr_seek", !.c = c]]

\* handleFullWriteFile, up to the lookup of the writer
handleFullWriteFile(w, f, q) ==
    LET writer == Lookup(w.writers, q.fileID)
    IN  IF ~f.allowPUT
          THEN [w |-> w, q |-> Done(WriteHeader(q, StatusForbidden))]
        ELSE IF writer = NoMux
          THEN [w |-> w, q |-> Done(WriteHeader(q, StatusNotFound))]
        ELSE [w |-> w, q |-> [q EXCEPT !.pc = "put", !.m = writer]]

\* handleCloseFile that leaves the writer alone once it has closed a reader
handleCloseFile_ReaderFirst(w, f, q) ==
    LET cr == closeReader(w, f, q.fileID)
        cw == closeWriter(w, f, q.fileID)
    IN  IF ~f.allowClose
          THEN [w |-> w, q |-> Done(WriteHeader(q, StatusForbidden))]
        ELSE IF cr.ok
          THEN [w |-> cr.w,
                q |-> Done([WriteHeader(q, StatusNoContent) EXCEPT
                              !.touched = f.closeReaders])]
        ELSE IF ~cw.ok
          THEN [w |-> w, q |-> Done(WriteHeader(q, StatusNotFound))]
        ELSE [w |-> cw.w,
              q |-> Done([WriteHeader(q, StatusNoContent) EXCEPT
                            !.touched = f.closeWriters])]

\* handleCloseFile that never looks at allowClose
handleCloseFile_Always(w, f, q) ==
    LET cr == closeReader(w, f, q.fileID)
        cw == closeWriter(cr.w, f, q.fileID)
    IN  IF ~cr.ok /\ ~cw.ok
          THEN [w |-> cw.w, q |-> Done(WriteHeader(q, StatusNotFound))]
        ELSE [w |-> cw.w,
              q |-> Done([WriteHeader(q, StatusNoContent) EXCEPT
                            !.touched = (f.closeReaders /\ cr.ok)
                                        \/ (f.closeWriters /\ cw.ok)])]

\* handleCloseFile
handleCloseFile(w, f, q) ==
    LET cr == closeReader(w, f, q.fileID)
        cw == closeWriter(cr.w, f, q.fileID)
    IN  IF ~f.allowClose
          THEN [w |-> w, q |-> Done(WriteHeader(q, StatusForbidden))]
        ELSE IF ~cr.ok /\ ~cw.ok
          THEN [w |-> cw.w, q |-> Done(WriteHeader(q, StatusNotFound))]
        ELSE [w |-> cw.w,
              q |-> Done([WriteHeader(q, StatusNoContent) EXCEPT
                            !.touched = (f.closeReaders /\ cr.ok)
                                        \/ (f.closeWriters /\ cw.ok)])]

\* no check of the secret: every request presents the right one
requestSecret_Any(rq) == sharedSecret

\* the query parameter is never looked at
requestSecret_HeaderOnly(rq) == rq.header

\* the secret a request presents: the header, or the query parameter when
\* the header is empty
requestSecret(rq) == IF rq.header = "" THEN rq.query ELSE rq.header

\* ServeHTTP for the request rq = [method, path, header, query, xrange, body],
\* up to the first operation on a cursor or handle
ServeHTTP(w, f, rq) ==
    LET q0 == [IdleReq EXCEPT !.method = rq.method, !.body = rq.body,
                              !.path = rq.path, !.header = rq.header,
                              !.query = rq.query, !.xrange = rq.xrange]
        url == TrimPrefix(rq.path, urlPrefix)
        q == [q0 EXCEPT !.fileID = Tail(url)]
    IN  IF urlPrefix # << >> /\ ~HasPrefix(rq.path, urlPrefix)
          THEN [w |-> w, q |-> Done(WriteHeader(q0, StatusBadRequest))]
        ELSE IF requestSecret(rq) # sharedSecret
          THEN [w |-> w, q |-> Done(WriteHeader(q0, StatusUnauthorized))]
        ELSE IF url = << >>
          THEN [w |-> w, q |-> Done([q0 EXCEPT !.aborted = TRUE])]
        ELSE IF url[1] # "/"
          THEN [w |-> w, q |-> Done(WriteHeader(q0, StatusBadRequest))]
        ELSE CASE rq.method = "OPTIONS" -> handleFileOptions(w, f, q)
               [] rq.method = "GET" -> handleReadFile(w, f, q, rq.xrange)
               [] rq.method = "PATCH" -> handleWriteFile(w, f, q, rq.xrange)
               [] rq.method = "PUT" -> handleFullWriteFile(w, f, q)
               [] rq.method = "DELETE" -> handleCloseFile(w, f, q)
               [] OTHER -> [w |-> w,
                            q |-> Done(WriteHeader(q, StatusMethodNotAllowed))]

(***************************************************************************)
(* The rest of each handler, one cursor or handle operation at a time.     *)
(***************************************************************************)
sniffLen == 512
Touched(q) == [q EXCEPT !.touched = TRUE]

\* handleReadFile seeking to the start instead of the offset asked for
readFile_Seek_Start(w, q) ==
    LET r == cursor_Seek(w, q.c, 0, SeekStart)
    IN  IF r.err # NoErr
          THEN [w |-> r.s, q |-> Done(writeErrorToResponseWriter(Touched(q), r.err))]
        ELSE [w |-> r.s, q |-> [Touched(q) EXCEPT !.pc = "rd_copy"]]

\* handleReadFile: rdr.Seek(offset, io.SeekStart)
readFile_Seek(w, q) ==
    LET r == cursor_Seek(w, q.c, q.off, SeekStart)
    IN  IF r.err # NoErr
          THEN [w |-> r.s, q |-> Done(writeErrorToResponseWriter(Touched(q), r.err))]
        ELSE [w |-> r.s, q |-> [Touched(q) EXCEPT !.pc = "rd_copy"]]

\* a copy that ends after its first Read
readFile_Copy_OneRead(w, q, k) ==
    LET r == readSeeker_Read(w, q.c, q.left, k)
        q1 == IF r.n > 0
                THEN [WriteBytes(Touched(q), r.out) EXCEPT !.n = q.n + r.n,
                                                         !.left = q.left - r.n]
                ELSE Touched(q)
    IN  [w |-> r.s, q |-> Done(q1)]

\* one Read of io.Copy(resp, io.LimitReader(rdr, length)), and the end of the
\* copy when the limit or the end of the file is reached
readFile_Copy(w, q, k) ==
    LET r == readSeeker_Read(w, q.c, q.left, k)
        q1 == IF r.n > 0
                THEN [WriteBytes(Touched(q), r.out) EXCEPT !.n = q.n + r.n,
                                                         !.left = q.left - r.n]
                ELSE Touched(q)
    IN  IF r.err # NoErr \/ q1.left = 0
          THEN [w |-> r.s, q |-> Done(q1)]
        ELSE [w |-> r.s, q |-> q1]

\* a response that does not compare the bytes copied with the length declared
writeFile_Finish_NoCheck(q) ==
    Done(WriteHeader(SetHeaderRange(q, FormatRange(q.off, q.n)), StatusNoContent))

\* handleWriteFile after io.Copy(wrtr, req.Body) has returned without error
writeFile_Finish(q) ==
    IF q.n # q.length
      THEN Done(WriteText(WriteHeader(q, StatusBadRequest), "invalid body length"))
      ELSE Done(WriteHeader(SetHeaderRange(q, FormatRange(q.off, q.n)),
                            StatusNoContent))

\* handleWriteFile seeking to the start instead of the offset asked for
writeFile_Seek_Start(w, q) ==
    LET r == cursor_Seek(w, q.c, 0, SeekStart)
    IN  IF r.err # NoErr
          THEN [w |-> r.s, q |-> Done(writeErrorToResponseWriter(Touched(q), r.err))]
        ELSE IF q.body = << >>
          THEN [w |-> r.s, q |-> writeFile_Finish(Touched(q))]
        ELSE [w |-> r.s, q |-> [Touched(q) EXCEPT !.pc = "wr_copy"]]

\* handleWriteFile: wrtr.Seek(offset, io.SeekStart)
writeFile_Seek(w, q) ==
    LET r == cursor_Seek(w, q.c, q.off, SeekStart)
    IN  IF r.err # NoErr
          THEN [w |-> r.s, q |-> Done(writeErrorToResponseWriter(Touched(q), r.err))]
        ELSE IF q.body = << >>
          THEN [w |-> r.s, q |-> writeFile_Finish(Touched(q))]
        ELSE [w |-> r.s, q |-> [Touched(q) EXCEPT !.pc = "wr_copy"]]

\* one Write of io.Copy(wrtr, req.Body): the next k bytes of the body
writeFile_Copy(w, q, k) ==
    LET chunk == SubSeq(q.body, 1, k)
        rest == SubSeq(q.body, k + 1, Len(q.body))
        r == writeSeeker_Write(w, q.c, chunk)
        q1 == [Touched(q) EXCEPT !.n = q.n + r.n, !.body = rest]
    IN  IF r.err # NoErr
          THEN [w |-> r.s, q |-> Done(writeErrorToResponseWriter(q1, r.err))]
        ELSE IF rest = << >>
          THEN [w |-> r.s, q |-> writeFile_Finish(q1)]
        ELSE [w |-> r.s, q |-> q1]

\* a full write that starts at the beginning of the file
fullWriteFile_Copy_FromStart(w, q) ==
    LET h == w.mux[q.m].h
        wr == h_Write([w.handles[h] EXCEPT !.pos = 0], q.body)
    IN  IF q.body = << >>
          THEN [w |-> w, q |-> Done(WriteHeader(q, StatusNoContent))]
        ELSE IF wr.err # NoErr
          THEN [w |-> w, q |-> Done(writeErrorToResponseWriter(Touched(q), wr.err))]
        ELSE [w |-> [w EXCEPT !.handles[h] = wr.hd],
              q |-> Done(WriteHeader([Touched(q) EXCEPT !.n = wr.n],
                                     StatusNoContent))]

\* handleFullWriteFile: io.Copy(writer.wrtr, req.Body) with writer.mu held
fullWriteFile_Copy(w, q) ==
    LET h == w.mux[q.m].h
        wr == h_Write(w.handles[h], q.body)
    IN  IF q.body = << >>
          THEN [w |-> w, q |-> Done(WriteHeader(q, StatusNoContent))]
        ELSE IF wr.err # NoErr
          THEN [w |-> w, q |-> Done(writeErrorToResponseWriter(Touched(q), wr.err))]
        ELSE [w |-> [w EXCEPT !.handles[h] = wr.hd],
              q |-> Done(WriteHeader([Touched(q) EXCEPT !.n = wr.n],
                                     StatusNoContent))]

\* the name an *os.File reports
HandleName(h) == <<h>>

\* json.Marshal(&info): the document, token by token
jsonMarshal(name, size) ==
    <<"{", "name", ":">> \o name \o <<",", "size", ":">> \o Itoa(size)
       \o <<",", "modtime", ":", "0", ",", "mode", ":", "0", ",",
            "isdir", ":", "false", "}">>

\* json.NewDecoder(resp.Body).Decode(&fi): the size field of the document
jsonDecode(text) ==
    LET at == { i \in 1..(Len(text) - 2) : text[i] = "size" /\ text[i + 1] = ":" }
        i == CHOOSE j \in at : \A k \in at : j <= k
        sc == ScanInt(text, i + 2)
    IN  IF text = << >> \/ text[1] # "{" \/ text[Len(text)] # "}" \/ at = {}
          THEN [ok |-> FALSE, size |-> 0]
        ELSE [ok |-> sc.ok, size |-> sc.val]

\* the Content-Length the client receives with a response whose body is a
\* short JSON document: the one the handler set before the status line,
\* and without one the length of the body, which net/http fills in
SentContentLength(q) ==
    IF q.clen # << >> THEN q.clen ELSE Itoa(Len(q.json))

\* the text of the *PathError an *os.File operation fails with: it names the
\* file
PathError(op, h, err) == op \o " " \o h \o ": " \o err

\* statFile from the Statter check on, and handleFileOptions' response
fileOptions_Stat(w, f, q) ==
    LET hd == w.handles[q.h]
        name == IF f.discloseFilenames THEN HandleName(q.h) ELSE q.fileID
        size == Len(hd.content)
        q1 == WriteHeader(Touched(q), StatusOK)
        q2 == SetHeaderContentLength(q1, Itoa(size))
    IN  IF ~hd.stat
          THEN [w |-> w, q |-> Done(writeErrorToResponseWriter(q, ErrUnsupportedOperation))]
        ELSE IF hd.closed > 0
          THEN [w |-> w, q |-> Done(writeErrorToResponseWriter(Touched(q),
                                      PathError("stat", q.h, ErrClosed)))]
        ELSE [w |-> w,
              q |-> Done([q2 EXCEPT !.name = name, !.size = size,
                                    !.json = jsonMarshal(name, size)])]

\* http.ServeContent: one Read of io.ReadFull(content, buf[:sniffLen])
serveContent_Sniff(w, q, k) ==
    LET r == readSeeker_Read(w, q.c, sniffLen - q.n, k)
        q1 == [Touched(q) EXCEPT !.n = q.n + r.n]
    IN  IF r.err # NoErr \/ q1.n = sniffLen
          THEN [w |-> r.s, q |-> [q1 EXCEPT !.pc = "sc_rewind", !.n = 0]]
        ELSE [w |-> r.s, q |-> q1]

\* http.ServeContent: content.Seek(0, io.SeekStart) after the sniff
serveContent_Rewind(w, q) ==
    LET r == cursor_Seek(w, q.c, 0, SeekStart)
    IN  IF r.err # NoErr
          THEN [w |-> r.s, q |-> Done(WriteText(WriteHeader(Touched(q),
                          StatusInternalServerError), "seeker can't seek"))]
        ELSE [w |-> r.s, q |-> [Touched(q) EXCEPT !.pc = "sc_size"]]

\* http.ServeContent: size, err := content.Seek(0, io.SeekEnd)
serveContent_SeekEnd(w, q) ==
    LET r == cursor_Seek(w, q.c, 0, SeekEnd)
    IN  IF r.err # NoErr
          THEN [w |-> r.s, q |-> Done(WriteText(WriteHeader(Touched(q),
                          StatusInternalServerError), "seeker can't seek"))]
        ELSE [w |-> r.s, q |-> [Touched(q) EXCEPT !.pc = "sc_start",
                                                  !.size = r.n]]

\* http.ServeContent: content.Seek(0, io.SeekStart), the status line, and
\* io.CopyN(w, content, size) left to do
serveContent_SeekStart(w, q) ==
    LET r == cursor_Seek(w, q.c, 0, SeekStart)
        q1 == WriteHeader(Touched(q), StatusOK)
    IN  IF r.err # NoErr
          THEN [w |-> r.s, q |-> Done(WriteText(WriteHeader(Touched(q),
                          StatusInternalServerError), "seeker can't seek"))]
        ELSE IF q.size = 0 THEN [w |-> r.s, q |-> Done(q1)]
        ELSE [w |-> r.s, q |-> [q1 EXCEPT !.pc = "rd_copy", !.left = q.size]]

(***************************************************************************)
(* Unreachable cursors and multiplexers are collected.  A multiplexer      *)
(* lives while it is registered or a handler holds it or one of its        *)
(* cursors.  A cursor lives while a handler holds it; a lastChange that    *)
(* names a cursor no handler holds is only ever compared with the live     *)
(* cursors and differs from each, as NoCursor does, so it is kept as       *)
(* NoCursor.                                                               *)
(***************************************************************************)
Collect(w, rq) ==
    LET held == { rq[r].c : r \in ReqIds }
        liveM == { m \in MuxIds :
                     /\ w.mux[m].kind # "free"
                     /\ \/ \E id \in DOMAIN w.readers : w.readers[id] = m
                        \/ \E id \in DOMAIN w.writers : w.writers[id] = m
                        \/ \E r \in ReqIds : rq[r].m = m
                        \/ \E c \in held : c # NoCursor /\ w.cur[c].parent = m }
        liveC == { c \in CurIds : w.cur[c].parent \in liveM /\ c \in held }
    IN  [w EXCEPT !.cur = [c \in CurIds |-> IF c \in liveC THEN w.cur[c] ELSE FreeCur],
                  !.mux = [m \in MuxIds |->
                             IF m \notin liveM THEN FreeMux
                             ELSE IF w.mux[m].lastChange \in liveC THEN w.mux[m]
                             ELSE [w.mux[m] EXCEPT !.lastChange = NoCursor]]]

\* request r moves on to res = [w, q]
Apply(r, res) ==
    LET rq == [req EXCEPT ![r] = res.q]
    IN  /\ req' = rq
        /\ SetW(Collect(res.w, rq))

(***************************************************************************)
(* The server's actions.                                                   *)
(***************************************************************************)
Request(r, rq) ==
    /\ req[r].pc = "idle"
    /\ HasFreshCur(W)
    /\ Apply(r, ServeHTTP(W, fs, rq))

ReadSeek(r) ==
    /\ req[r].pc = "rd_seek"
    /\ Apply(r, readFile_Seek(W, req[r]))

ReadCopy(r) ==
    /\ req[r].pc = "rd_copy"
    /\ \E k \in 1..req[r].left : Apply(r, readFile_Copy(W, req[r], k))

WriteSeek(r) ==
    /\ req[r].pc = "wr_seek"
    /\ Apply(r, writeFile_Seek(W, req[r]))

WriteCopy(r) ==
    /\ req[r].pc = "wr_copy"
    /\ \E k \in 1..Len(req[r].body) : Apply(r, writeFile_Copy(W, req[r], k))

FullWrite(r) ==
    /\ req[r].pc = "put"
    /\ Apply(r, fullWriteFile_Copy(W, req[r]))

Stat(r) ==
    /\ req[r].pc = "stat"
    /\ Apply(r, fileOptions_Stat(W, fs, req[r]))

Sniff(r) ==
    /\ req[r].pc = "sc_sniff"
    /\ \E k \in 1..MaxLen : Apply(r, serveContent_Sniff(W, req[r], k))

Rewind(r) ==
    /\ req[r].pc = "sc_rewind"
    /\ Apply(r, serveContent_Rewind(W, req[r]))

SeekEndStep(r) ==
    /\ req[r].pc = "sc_size"
    /\ Apply(r, serveContent_SeekEnd(W, req[r]))

SeekStartStep(r) ==
    /\ req[r].pc = "sc_start"
    /\ Apply(r, serveContent_SeekStart(W, req[r]))

\* the client has the response: the slot is free for its next request
Respond(r) ==
    /\ req[r].pc = "done"
    /\ req' = [req EXCEPT ![r] = IdleReq]
    /\ UNCHANGED <<handles, mux, cur, readers, writers>>

(***************************************************************************)
(* Registration and the goroutine that waits for the registration's        *)
(* context.                                                                *)
(***************************************************************************)
NoReg == [kind |-> "", fileID |-> << >>, h |-> NoHandle, err |-> NoErr,
          calls |-> 0]

\* ServeFileReader seeking to the start before it looks the identifier up
ServeFileReader_SeekFirst(w, fileID, h) ==
    LET sk == h_Seek(w.handles[h], 0, SeekStart)
        w0 == [w EXCEPT !.handles[h] = sk.hd]
        m == FreshMux(w)
        w1 == newMux(w0, m, "r", h)
    IN  IF sk.err # NoErr THEN [w |-> w, err |-> sk.err]
        ELSE IF Lookup(w.readers, fileID) # NoMux
          THEN [w |-> w0, err |-> ErrFileIDTaken]
        ELSE [w |-> [w1 EXCEPT !.readers[fileID] = m], err |-> NoErr]

\* ServeFileReader that registers the file whatever its Seek returned
ServeFileReader_IgnoreSeek(w, fileID, h) ==
    LET sk == h_Seek(w.handles[h], 0, SeekStart)
        m == FreshMux(w)
        w1 == newMux([w EXCEPT !.handles[h] = sk.hd], m, "r", h)
    IN  IF Lookup(w.readers, fileID) # NoMux THEN [w |-> w, err |-> ErrFileIDTaken]
        ELSE [w |-> [w1 EXCEPT !.readers[fileID] = m], err |-> NoErr]

\* ServeFileReader, without the goroutine it starts
ServeFileReader(w, fileID, h) ==
    LET sk == h_Seek(w.handles[h], 0, SeekStart)
        m == FreshMux(w)
        w1 == newMux([w EXCEPT !.handles[h] = sk.hd], m, "r", h)
    IN  IF Lookup(w.readers, fileID) # NoMux THEN [w |-> w, err |-> ErrFileIDTaken]
        ELSE IF sk.err # NoErr THEN [w |-> w, err |-> sk.err]
        ELSE [w |-> [w1 EXCEPT !.readers[fileID] = m], err |-> NoErr]

\* ServeFileWriter, without the goroutine it starts
ServeFileWriter(w, fileID, h) ==
    LET sk == h_Seek(w.handles[h], 0, SeekStart)
        m == FreshMux(w)
        w1 == newMux([w EXCEPT !.handles[h] = sk.hd], m, "w", h)
    IN  IF Lookup(w.writers, fileID) # NoMux THEN [w |-> w, err |-> ErrFileIDTaken]
        ELSE IF sk.err # NoErr THEN [w |-> w, err |-> sk.err]
        ELSE [w |-> [w1 EXCEPT !.writers[fileID] = m], err |-> NoErr]

\* a goroutine that returns without closing anything
waiter_Run_Nothing(w, f, wt) == [w |-> w, ok |-> FALSE]

\* the goroutine of a registration, once its context is done
waiter_Run(w, f, wt) ==
    IF wt.kind = "r" THEN closeReader(w, f, wt.fileID)
                     ELSE closeWriter(w, f, wt.fileID)

RegisterReader(fileID, h, ctx) ==
    /\ HasFreshMux(W) \/ Lookup(readers, fileID) # NoMux
    /\ [kind |-> "r", fileID |-> fileID, ctx |-> ctx] \notin waiters
    /\ LET res == ServeFileReader(W, fileID, h)
       IN  /\ SetW(Collect(res.w, req))
           /\ waiters' = IF res.err = NoErr
                           THEN waiters \cup {[kind |-> "r", fileID |-> fileID,
                                               ctx |-> ctx]}
                           ELSE waiters
           /\ lastReg' = [kind |-> "r", fileID |-> fileID, h |-> h,
                          err |-> res.err, calls |-> 1 - lastReg.calls]
    /\ UNCHANGED <<req, fs, lockVars, ctxDone, cli, last, logical, ref>>

RegisterWriter(fileID, h, ctx) ==
    /\ HasFreshMux(W) \/ Lookup(writers, fileID) # NoMux
    /\ [kind |-> "w", fileID |-> fileID, ctx |-> ctx] \notin waiters
    /\ LET res == ServeFileWriter(W, fileID, h)
       IN  /\ SetW(Collect(res.w, req))
           /\ waiters' = IF res.err = NoErr
                           THEN waiters \cup {[kind |-> "w", fileID |-> fileID,
                                               ctx |-> ctx]}
                           ELSE waiters
           /\ lastReg' = [kind |-> "w", fileID |-> fileID, h |-> h,
                          err |-> res.err, calls |-> 1 - lastReg.calls]
    /\ UNCHANGED <<req, fs, lockVars, ctxDone, cli, last, logical, ref>>

\* a context is cancelled or reaches its deadline
Cancel(ctx) ==
    /\ ctx # "background"
    /\ ~ctxDone[ctx]
    /\ ctxDone' = [ctxDone EXCEPT ![ctx] = TRUE]
    /\ UNCHANGED <<handles, mux, cur, readers, writers, req, fs, lockVars, waiters,
                   lastReg, cli, last, logical, ref>>

\* <-ctx.Done() has returned: fs.mu.Lock(); closeReader(fileID); fs.mu.Unlock()
Waiter(wt) ==
    /\ wt \in waiters
    /\ ctxDone[wt.ctx]
    /\ SetW(Collect(waiter_Run(W, fs, wt).w, req))
    /\ waiters' = waiters \ {wt}
    /\ UNCHANGED <<req, fs, lockVars, ctxDone, lastReg, cli, last, logical, ref>>

(***************************************************************************)
(* The client side: Reader and Writer, each call one request.  Client i    *)
(* uses request slot i.                                                    *)
(***************************************************************************)
ClientIds == ReqIds
ErrTransport == "transport error"
ErrServerOffset == "unexpected server offset"
ErrServerLength == "unexpected server length"
ErrScan == "unexpected EOF in range header"

NoClient == [kind |-> "none", pc |-> "ready", fileID |-> << >>, offset |-> 0,
             blen |-> 0, src |-> << >>, got |-> << >>, n |-> 0, err |-> NoErr,
             calls |-> 0]
NewReader(fileID, blen) ==
    [NoClient EXCEPT !.kind = "reader", !.fileID = fileID, !.blen = blen]
NewWriter(fileID, src) ==
    [NoClient EXCEPT !.kind = "writer", !.fileID = fileID, !.src = src]

\* file.prepareRequest and the X-Range header set by read / write
clientRequest(cl, method, length, body) ==
    [method |-> method, path |-> urlPrefix \o <<"/">> \o cl.fileID,
     header |-> sharedSecret, query |-> "",
     xrange |-> FormatRange(cl.offset, length), body |-> body]

\* Reader.read that returns (0, nil) for an empty body
reader_read_NoEOF(cl, q, k) ==
    LET err == responseCodeToError(q.status, StatusPartialContent)
        n == Min(Min(k, cl.blen), Len(q.out))
    IN  IF q.aborted THEN [n |-> 0, err |-> ErrTransport, out |-> << >>]
        ELSE IF err # NoErr THEN [n |-> 0, err |-> err, out |-> << >>]
        ELSE [n |-> n, err |-> NoErr, out |-> SubSeq(q.out, 1, n)]

\* Reader.read that reports the end of the stream with every short read
reader_read_ShortEOF(cl, q, k) ==
    LET err == responseCodeToError(q.status, StatusPartialContent)
        n == Min(Min(k, cl.blen), Len(q.out))
    IN  IF q.aborted THEN [n |-> 0, err |-> ErrTransport, out |-> << >>]
        ELSE IF err # NoErr THEN [n |-> 0, err |-> err, out |-> << >>]
        ELSE IF n < cl.blen THEN [n |-> n, err |-> EOF, out |-> SubSeq(q.out, 1, n)]
        ELSE [n |-> n, err |-> NoErr, out |-> SubSeq(q.out, 1, n)]

\* Reader.read after client.Do: the status, then resp.Body.Read(buf), which
\* delivers k bytes of the body at most
reader_read(cl, q, k) ==
    LET err == responseCodeToError(q.status, StatusPartialContent)
        n == Min(Min(k, cl.blen), Len(q.out))
    IN  IF q.aborted THEN [n |-> 0, err |-> ErrTransport, out |-> << >>]
        ELSE IF err # NoErr THEN [n |-> 0, err |-> err, out |-> << >>]
        ELSE IF n = 0 THEN [n |-> 0, err |-> EOF, out |-> << >>]
        ELSE [n |-> n, err |-> NoErr, out |-> SubSeq(q.out, 1, n)]

\* Reader.Read: r.offset += n
Reader_Read(cl, q, k) ==
    LET r == reader_read(cl, q, k)
    IN  [cl EXCEPT !.offset = cl.offset + r.n, !.got = cl.got \o r.out,
                   !.n = r.n, !.err = r.err,
                   !.pc = IF r.err = NoErr THEN "ready"
                          ELSE IF r.err = EOF THEN "eof" ELSE "failed"]

\* Writer.write that does not compare the server's length with len(buf)
writer_write_NoLengthCheck(cl, q, length) ==
    LET err == responseCodeToError(q.status, StatusNoContent)
        sc == ScanRange(q.xr)
    IN  IF q.aborted THEN [n |-> 0, err |-> ErrTransport]
        ELSE IF err # NoErr THEN [n |-> 0, err |-> err]
        ELSE IF ~sc.ok THEN [n |-> 0, err |-> ErrScan]
        ELSE IF sc.offset # cl.offset THEN [n |-> 0, err |-> ErrServerOffset]
        ELSE [n |-> sc.length, err |-> NoErr]

\* Writer.write after client.Do, for a buffer of length bytes
writer_write(cl, q, length) ==
    LET err == responseCodeToError(q.status, StatusNoContent)
        sc == ScanRange(q.xr)
    IN  IF q.aborted THEN [n |-> 0, err |-> ErrTransport]
        ELSE IF err # NoErr THEN [n |-> 0, err |-> err]
        ELSE IF ~sc.ok THEN [n |-> 0, err |-> ErrScan]
        ELSE IF sc.offset # cl.offset THEN [n |-> 0, err |-> ErrServerOffset]
        ELSE IF sc.length # length THEN [n |-> 0, err |-> ErrServerLength]
        ELSE [n |-> sc.length, err |-> NoErr]

\* Writer.Write: w.offset += n; the chunk written leaves the source
Writer_Write(cl, q) ==
    LET r == writer_write(cl, q, cl.blen)
    IN  [cl EXCEPT !.offset = cl.offset + r.n,
                   !.src = SubSeq(cl.src, r.n + 1, Len(cl.src)),
                   !.got = cl.got \o SubSeq(cl.src, 1, r.n),
                   !.n = r.n, !.err = r.err,
                   !.pc = IF r.err = NoErr THEN "ready" ELSE "failed"]

\* a Reader's Read call sends its request
ReadCall(i) ==
    /\ cli[i].kind = "reader"
    /\ cli[i].pc = "ready"
    /\ Request(i, clientRequest(cli[i], "GET", cli[i].blen, << >>))
    /\ cli' = [cli EXCEPT ![i].pc = "wait", ![i].calls = Min(cli[i].calls + 1, 2)]
    /\ UNCHANGED <<fs, lockVars, waiters, ctxDone, lastReg, last, logical, ref>>

\* a Reader's Read call returns
ReadReturn(i) ==
    /\ cli[i].kind = "reader"
    /\ cli[i].pc = "wait"
    /\ req[i].pc = "done"
    /\ \E k \in 1..cli[i].blen : cli' = [cli EXCEPT ![i] = Reader_Read(cli[i], req[i], k)]
    /\ req' = [req EXCEPT ![i] = IdleReq]
    /\ UNCHANGED <<handles, mux, cur, readers, writers, fs, lockVars, waiters, ctxDone,
                   lastReg, last, logical, ref>>

\* a Writer's Write call sends the next chunk of its source, k bytes long
WriteCall(i) ==
    /\ cli[i].kind = "writer"
    /\ cli[i].pc = "ready"
    /\ \E k \in 1..Min(MaxLen, Len(cli[i].src)) :
          /\ Request(i, clientRequest(cli[i], "PATCH", k, SubSeq(cli[i].src, 1, k)))
          /\ cli' = [cli EXCEPT ![i].pc = "wait", ![i].blen = k,
                                ![i].calls = Min(cli[i].calls + 1, 2)]
    /\ UNCHANGED <<fs, lockVars, waiters, ctxDone, lastReg, last, logical, ref>>

\* a Writer's Write call returns
WriteReturn(i) ==
    /\ cli[i].kind = "writer"
    /\ cli[i].pc = "wait"
    /\ req[i].pc = "done"
    /\ cli' = [cli EXCEPT ![i] = Writer_Write(cli[i], req[i])]
    /\ req' = [req EXCEPT ![i] = IdleReq]
    /\ UNCHANGED <<handles, mux, cur, readers, writers, fs, lockVars, waiters, ctxDone,
                   lastReg, last, logical, ref>>

\* what a handler's step leaves alone
ServerStep(A) == A /\ UNCHANGED <<fs, lockVars, waiters, ctxDone, lastReg, cli, last,
                                   logical, ref>>

\* NewFileServer, no request yet, no client yet
ServerInit ==
    /\ mux = [m \in MuxIds |-> FreeMux]
    /\ cur = [c \in CurIds |-> FreeCur]
    /\ readers = [id \in FileIDs |-> NoMux]
    /\ writers = [id \in FileIDs |-> NoMux]
    /\ fs = DefaultFlags
    /\ req = [r \in ReqIds |-> IdleReq]
    /\ waiters = {}
    /\ LockIdle
    /\ ctxDone = [c \in Ctxs |-> FALSE]
    /\ lastReg = NoReg
    /\ last = NoOp
    /\ logical = [c \in CurIds |-> 0]

vars == <<handles, mux, cur, last, logical, ref, readers, writers, fs, req,
          waiters, ctxDone, lastReg, cli, locks, thr, io>>

(***************************************************************************)
(* SpecMux: the cursors of one multiplexer, each operation atomic under    *)
(* the multiplexer's mutex (mu.Lock ... defer mu.Unlock).                  *)
(***************************************************************************)
InitHandles(c1, c2) == [h \in Handles |->
                          IF h = "h1" THEN NewHandle(c1) ELSE NewHandle(c2)]
\* a reader serves an existing file, a writer a fresh temporary file
InitContent(kind) == IF kind = "r" THEN Pattern(MaxSize) ELSE << >>

MuxInit ==
    /\ \E kind \in {"r", "w"} :
          /\ handles = InitHandles(InitContent(kind), << >>)
          /\ mux = [m \in MuxIds |->
                      IF m = 1 THEN [kind |-> kind, h |-> "h1",
                                     lastChange |-> NoCursor]
                      ELSE FreeMux]
    /\ cur = [c \in CurIds |-> FreeCur]
    /\ last = NoOp
    /\ logical = [c \in CurIds |-> 0]
    /\ ref = handles["h1"].content
    /\ readers = [id \in FileIDs |-> NoMux]
    /\ writers = [id \in FileIDs |-> NoMux]
    /\ fs = DefaultFlags
    /\ req = [r \in ReqIds |-> IdleReq]
    /\ waiters = {}
    /\ LockIdle
    /\ ctxDone = [c \in Ctxs |-> FALSE]
    /\ lastReg = NoReg
    /\ cli = [i \in ClientIds |-> NoClient]

MuxNew ==
    /\ HasFreshCur(St)
    /\ SetSt(mux_New(St, 1, FreshCur(St)))
    /\ last' = NoOp
    /\ UNCHANGED <<logical, ref>>

MuxSeek(c, offset) ==
    /\ cur[c].parent # NoMux
    /\ LET r == cursor_Seek(St, c, offset, SeekStart)
       IN  /\ SetSt(r.s)
           /\ last' = [NoOp EXCEPT !.op = "seek", !.c = c, !.n = r.n,
                                   !.err = r.err]
           /\ logical' = [logical EXCEPT ![c] = offset]
           /\ UNCHANGED ref

MuxRead(c, plen, k) ==
    /\ cur[c].parent # NoMux
    /\ mux[cur[c].parent].kind = "r"
    /\ LET r == readSeeker_Read(St, c, plen, k)
       IN  /\ SetSt(r.s)
           /\ last' = [NoOp EXCEPT !.op = "read", !.c = c, !.plen = plen,
                                   !.off = logical[c],
                                   !.n = r.n, !.out = r.out, !.err = r.err,
                                   !.sought = r.sought]
           /\ logical' = [logical EXCEPT ![c] = logical[c] + r.n]
           /\ UNCHANGED ref

MuxWrite(c, p) ==
    /\ cur[c].parent # NoMux
    /\ mux[cur[c].parent].kind = "w"
    /\ Max(cur[c].offset, handles[HandleOf(St, c)].pos) + Len(p) <= MaxFile
    /\ LET r == writeSeeker_Write(St, c, p)
       IN  /\ SetSt(r.s)
           /\ last' = [NoOp EXCEPT !.op = "write", !.c = c, !.arg = p,
                                   !.off = logical[c],
                                   !.n = r.n, !.err = r.err,
                                   !.sought = r.sought]
           /\ logical' = [logical EXCEPT ![c] = logical[c] + r.n]
           /\ ref' = StoreAt(ref, logical[c], p)

srvVars == <<readers, writers, fs, req, waiters, ctxDone, lastReg, cli,
            lockVars>>

MuxNext ==
    \/ MuxNew /\ UNCHANGED srvVars
    \/ \E c \in CurIds, offset \in 0..MaxOff :
          MuxSeek(c, offset) /\ UNCHANGED srvVars
    \/ \E c \in CurIds, plen \in 1..MaxLen : \E k \in 1..plen :
          MuxRead(c, plen, k) /\ UNCHANGED srvVars
    \/ \E c \in CurIds, p \in Chunks :
          MuxWrite(c, p) /\ UNCHANGED srvVars

SpecMux == MuxInit /\ [][MuxNext]_vars

(***************************************************************************)
(* C1: over every interleaving of the Seek(start) / Read / Write calls of  *)
(* the cursors of one multiplexer, each Read returns the file's bytes from *)
(* the calling cursor's own offset (none only at or past the end), each    *)
(* Write stores its bytes at the calling cursor's own offset, and so the   *)
(* file always equals the one the same calls leave as positioned writes.   *)
(***************************************************************************)
C1_CursorOpsArePositioned ==
    /\ handles["h1"].content = ref
    /\ last.op = "read" =>
          /\ last.err \in {NoErr, EOF}
          /\ last.off + last.n <= Max(last.off, Len(ref))
          /\ last.out = SubSeq(ref, last.off + 1, last.off + last.n)
          /\ last.n <= last.plen
          /\ (last.n = 0) = (last.off >= Len(ref))
          /\ (last.err = EOF) = (last.n = 0)
    /\ last.op = "write" =>
          /\ last.err = NoErr
          /\ last.n = Len(last.arg)
          /\ SubSeq(ref, last.off + 1, last.off + last.n) = last.arg
    /\ last.op # "none" => logical[last.c] = cur[last.c].offset

\* a second cursor has just read or written after the first one moved the
\* file position elsewhere
C1_Witness ==
    /\ last.op \in {"read", "write"}
    /\ last.sought
    /\ last.n > 0
    /\ \A c \in 1..2 : logical[c] > 0
    /\ logical[1] # logical[2]

(***************************************************************************)
(* SpecFullGet: clients download one registered reader with plain GET      *)
(* requests (no X-Range), served by http.ServeContent, all at once.        *)
(***************************************************************************)
theFile == <<"a">>
filePath == urlPrefix \o <<"/">> \o theFile

\* a GET without X-Range, as Reader.FullReadURL's user sends it
fullGetRequest == [method |-> "GET", path |-> filePath, header |-> "",
                   query |-> sharedSecret, xrange |-> << >>, body |-> << >>]

FullGetInit ==
    /\ ServerInit
    /\ handles = InitHandles(Pattern(MaxSize), << >>)
    /\ ref = handles["h1"].content
    /\ cli = [i \in ClientIds |-> NoClient]

FullGet(r) ==
    /\ readers[theFile] # NoMux
    /\ ServerStep(Request(r, fullGetRequest))

FullGetNext ==
    \/ RegisterReader(theFile, "h1", "background")
    \/ \E r \in ReqIds : FullGet(r)
    \/ \E r \in ReqIds : ServerStep(Sniff(r))
    \/ \E r \in ReqIds : ServerStep(Rewind(r))
    \/ \E r \in ReqIds : ServerStep(SeekEndStep(r))
    \/ \E r \in ReqIds : ServerStep(SeekStartStep(r))
    \/ \E r \in ReqIds : ServerStep(ReadCopy(r))
    \/ \E r \in ReqIds : ServerStep(Respond(r))

SpecFullGet == FullGetInit /\ [][FullGetNext]_vars

(***************************************************************************)
(* C2: when clients issue full GETs against one registered reader at the   *)
(* same time, each request works on a cursor of its own, learns the full   *)
(* size, and its response is 200 with a body that grows as a prefix of     *)
(* the handle's content and is the complete content when the response is   *)
(* done, whatever the interleaving of the cursors' seeks and reads.        *)
(***************************************************************************)
C2_FullGetsAreComplete ==
    \A r \in ReqIds :
       /\ req[r].pc # "idle" =>
             /\ Len(req[r].out) <= Len(handles["h1"].content)
             /\ req[r].out = SubSeq(handles["h1"].content, 1, Len(req[r].out))
             /\ req[r].status \in {0, StatusOK}
       /\ req[r].pc = "rd_copy" => req[r].size = Len(handles["h1"].content)
       /\ req[r].pc = "done" =>
             /\ req[r].status = StatusOK
             /\ req[r].out = handles["h1"].content
       /\ \A r2 \in ReqIds :
             (r2 # r /\ req[r].c # NoCursor) => req[r2].c # req[r].c

\* one download is complete while another one is in the middle of its copy
C2_Witness ==
    /\ req[1].pc = "done"
    /\ req[1].status = StatusOK
    /\ req[1].out = Pattern(MaxSize)
    /\ req[2].pc = "rd_copy"
    /\ req[2].n > 0
    /\ req[2].n < req[1].n

(***************************************************************************)
(* SpecCopy: one client copies a file through the remote Reader, call by   *)
(* call with a buffer of a fixed size, or copies a source into a fresh     *)
(* file through the remote Writer, chunk by chunk.  ref is the file to be  *)
(* read, or the source to be written.                                      *)
(***************************************************************************)
CopyInit ==
    /\ ServerInit
    /\ \/ \E n \in 0..MaxSize, b \in 1..MaxLen :
             /\ handles = InitHandles(Pattern(n), << >>)
             /\ ref = Pattern(n)
             /\ cli = [i \in ClientIds |->
                         IF i = 1 THEN NewReader(theFile, b) ELSE NoClient]
       \/ \E n \in 1..MaxSize :
             /\ handles = InitHandles(<< >>, << >>)
             /\ ref = Pattern(n)
             /\ cli = [i \in ClientIds |->
                         IF i = 1 THEN NewWriter(theFile, Pattern(n)) ELSE NoClient]

CopyNext ==
    \/ cli[1].kind = "reader" /\ RegisterReader(theFile, "h1", "background")
    \/ cli[1].kind = "writer" /\ RegisterWriter(theFile, "h1", "background")
    \/ \E i \in ClientIds : readers[theFile] # NoMux /\ ReadCall(i)
    \/ \E i \in ClientIds : ServerStep(ReadSeek(i))
    \/ \E i \in ClientIds : ServerStep(ReadCopy(i))
    \/ \E i \in ClientIds : ReadReturn(i)
    \/ \E i \in ClientIds : writers[theFile] # NoMux /\ WriteCall(i)
    \/ \E i \in ClientIds : ServerStep(WriteSeek(i))
    \/ \E i \in ClientIds : ServerStep(WriteCopy(i))
    \/ \E i \in ClientIds : WriteReturn(i)

SpecCopy == CopyInit /\ [][CopyNext]_vars

(***************************************************************************)
(* C3: a Reader on a registered file of any size, read from offset 0 with  *)
(* a buffer of any size b >= 1, delivers the file's bytes in order: what   *)
(* it has delivered is always the file up to the Reader's offset, a call   *)
(* that returns no error delivers 1..b bytes, no call fails with an error  *)
(* other than io.EOF, and io.EOF comes exactly when all S bytes of the     *)
(* file have been delivered.                                               *)
(***************************************************************************)
C3_ReaderCopiesFile ==
    \A i \in ClientIds : cli[i].kind = "reader" =>
       /\ cli[i].pc # "failed"
       /\ cli[i].offset <= Len(ref)
       /\ cli[i].got = SubSeq(ref, 1, cli[i].offset)
       /\ (cli[i].pc = "ready" /\ cli[i].calls > 0) =>
             /\ cli[i].err = NoErr
             /\ cli[i].n >= 1
             /\ cli[i].n <= cli[i].blen
       /\ cli[i].pc = "eof" =>
             /\ cli[i].err = EOF
             /\ cli[i].n = 0
             /\ cli[i].got = ref
             /\ cli[i].offset = Len(ref)

\* a file of MaxSize bytes has been copied in several calls
C3_Witness ==
    /\ cli[1].kind = "reader"
    /\ cli[1].pc = "eof"
    /\ cli[1].offset = MaxSize
    /\ cli[1].blen < MaxSize
    /\ cli[1].got = Pattern(MaxSize)

(***************************************************************************)
(* C4: a Writer on a freshly registered writer, given a source chunk by    *)
(* chunk (each chunk of one byte or more), returns (len(chunk), nil) from  *)
(* every Write, has advanced its offset by the chunks' lengths, and        *)
(* between two calls the file holds exactly the chunks written so far,     *)
(* from offset 0: the whole source once the last chunk is written.         *)
(***************************************************************************)
C4_WriterCopiesSource ==
    \A i \in ClientIds : cli[i].kind = "writer" =>
       /\ cli[i].pc # "failed"
       /\ cli[i].got \o cli[i].src = ref
       /\ cli[i].offset = Len(cli[i].got)
       /\ (cli[i].pc = "ready" /\ cli[i].calls > 0) =>
             /\ cli[i].err = NoErr
             /\ cli[i].n = cli[i].blen
             /\ cli[i].n >= 1
       /\ cli[i].pc = "ready" => handles["h1"].content = cli[i].got
       /\ (cli[i].pc = "ready" /\ cli[i].src = << >>) =>
             handles["h1"].content = ref

\* a source of MaxSize bytes has been written in several chunks
C4_Witness ==
    /\ cli[1].kind = "writer"
    /\ cli[1].pc = "ready"
    /\ cli[1].src = << >>
    /\ cli[1].calls = 2
    /\ cli[1].offset = MaxSize
    /\ handles["h1"].content = Pattern(MaxSize)

(***************************************************************************)
(* SpecRoundTrip: one handle registered as the reader and as the writer    *)
(* of an identifier.  A client sends a ranged write (slot 1) and, once it  *)
(* is acknowledged, a ranged read of the same range (slot 2).  last is     *)
(* the write sent, ref the file as positioned writes leave it.             *)
(***************************************************************************)
rangedRequest(method, offset, length, body) ==
    [method |-> method, path |-> filePath, header |-> sharedSecret,
     query |-> "", xrange |-> FormatRange(offset, length), body |-> body]

RoundTripInit ==
    /\ ServerInit
    /\ \E n \in {0, MaxSize} :
          /\ handles = InitHandles(Pattern(n), << >>)
          /\ ref = Pattern(n)
    /\ cli = [i \in ClientIds |-> NoClient]

RangedWrite(o, b) ==
    /\ readers[theFile] # NoMux
    /\ writers[theFile] # NoMux
    /\ req[2].pc = "idle"
    /\ o + Len(b) <= MaxFile
    /\ Request(1, rangedRequest("PATCH", o, Len(b), b))
    /\ last' = [NoOp EXCEPT !.op = "write", !.off = o, !.arg = b]
    /\ ref' = StoreAt(ref, o, b)
    /\ UNCHANGED <<fs, lockVars, waiters, ctxDone, lastReg, cli, logical>>

RangedReadBack ==
    /\ req[1].pc = "done"
    /\ req[1].status = StatusNoContent
    /\ ServerStep(Request(2, rangedRequest("GET", last.off, Len(last.arg), << >>)))

RoundTripNext ==
    \/ RegisterReader(theFile, "h1", "background")
    \/ RegisterWriter(theFile, "h1", "background")
    \/ \E o \in 0..MaxOff, b \in Chunks : RangedWrite(o, b)
    \/ ServerStep(WriteSeek(1))
    \/ ServerStep(WriteCopy(1))
    \/ RangedReadBack
    \/ ServerStep(ReadSeek(2))
    \/ ServerStep(ReadCopy(2))
    \/ ServerStep(Respond(2))
    \/ req[2].pc = "idle" /\ ServerStep(Respond(1))

SpecRoundTrip == RoundTripInit /\ [][RoundTripNext]_vars

(***************************************************************************)
(* C5: a ranged write of the bytes b at offset o is acknowledged with 204  *)
(* and leaves the file as the positioned write does, and the ranged read   *)
(* of len(b) bytes at offset o that follows it on the same handle is       *)
(* answered 206 with exactly b, for every offset o and every b of one      *)
(* byte or more.                                                           *)
(***************************************************************************)
C5_WriteThenReadReturnsWritten ==
    /\ req[1].pc = "done" =>
          /\ req[1].status = StatusNoContent
          /\ req[1].n = Len(last.arg)
          /\ handles["h1"].content = ref
          /\ SubSeq(ref, last.off + 1, last.off + Len(last.arg)) = last.arg
    /\ req[2].pc # "idle" =>
          /\ req[2].status = StatusPartialContent
          /\ Len(req[2].out) <= Len(last.arg)
          /\ req[2].out = SubSeq(last.arg, 1, Len(req[2].out))
    /\ req[2].pc = "done" => req[2].out = last.arg

\* bytes written into the middle of a longer file have been read back
C5_Witness ==
    /\ req[2].pc = "done"
    /\ req[2].out = last.arg
    /\ last.off > 0
    /\ Len(last.arg) > 1
    /\ Len(handles["h1"].content) > last.off + Len(last.arg)
    /\ handles["h1"].content # Pattern(Len(handles["h1"].content))

(***************************************************************************)
(* SpecHTTP: requests of every method, with and without the secret in the  *)
(* header and in the query, on good and bad paths, against a server with   *)
(* a reader (h1) and a writer (h2) registered for one identifier.          *)
(***************************************************************************)
Methods == {"OPTIONS", "GET", "PATCH", "PUT", "DELETE", "HEAD"}
Secrets == {"", sharedSecret, "wrong"}
Paths == {filePath,                       \* /p/a
          <<"/", "x", "/">> \o theFile,   \* another prefix
          urlPrefix \o theFile,           \* no "/" after the prefix
          urlPrefix}                      \* nothing after the prefix
\* a PATCH and a PUT carry a body of one byte, the other methods none
HttpRequests ==
    { [method |-> m, path |-> p, header |-> h, query |-> g, xrange |-> x,
       body |-> IF m \in {"PATCH", "PUT"} THEN <<1>> ELSE << >>] :
      m \in Methods, p \in Paths, h \in Secrets, g \in Secrets,
      x \in {<< >>, FormatRange(0, 1)} }

HttpInit ==
    /\ ServerInit
    /\ handles = InitHandles(Pattern(MaxSize), << >>)
    /\ ref = handles["h1"].content
    /\ cli = [i \in ClientIds |-> NoClient]

HttpRequest(rq) ==
    /\ handles["h2"].pos + Len(rq.body) <= MaxFile
    /\ ServerStep(Request(1, rq))

HttpNext ==
    \/ RegisterReader(theFile, "h1", "background")
    \/ RegisterWriter(theFile, "h2", "background")
    \/ \E rq \in HttpRequests : HttpRequest(rq)
    \/ \E r \in ReqIds : ServerStep(ReadSeek(r))
    \/ \E r \in ReqIds : ServerStep(ReadCopy(r))
    \/ \E r \in ReqIds : ServerStep(WriteSeek(r))
    \/ \E r \in ReqIds : ServerStep(WriteCopy(r))
    \/ \E r \in ReqIds : ServerStep(FullWrite(r))
    \/ \E r \in ReqIds : ServerStep(Stat(r))
    \/ \E r \in ReqIds : ServerStep(Sniff(r))
    \/ \E r \in ReqIds : ServerStep(Rewind(r))
    \/ \E r \in ReqIds : ServerStep(SeekEndStep(r))
    \/ \E r \in ReqIds : ServerStep(SeekStartStep(r))
    \/ \E r \in ReqIds : ServerStep(Respond(r))

SpecHTTP == HttpInit /\ [][HttpNext]_vars

\* the request in slot r is on a correctly prefixed path
Prefixed(q) == HasPrefix(q.path, urlPrefix)

(***************************************************************************)
(* C6: a request of any method on a correctly prefixed path that carries   *)
(* the secret neither in the header nor in the query is answered 401 at    *)
(* once, and serving it touches no handle (no seek, read, write, stat or   *)
(* close), creates no cursor and leaves the reader and writer maps as      *)
(* they were.                                                              *)
(***************************************************************************)
C6_WrongSecretTouchesNothing ==
    [][\A r \in ReqIds :
          ( /\ req[r].pc = "idle"
            /\ req'[r].pc # "idle"
            /\ Prefixed(req'[r])
            /\ req'[r].header # sharedSecret
            /\ req'[r].query # sharedSecret )
          => /\ req'[r].pc = "done"
             /\ req'[r].status = StatusUnauthorized
             /\ ~req'[r].touched
             /\ req'[r].out = << >>
             /\ handles' = handles
             /\ mux' = mux
             /\ cur' = cur
             /\ readers' = readers
             /\ writers' = writers]_vars

\* a DELETE with a wrong secret has been answered while both handles are
\* registered and open
C6_Witness ==
    /\ req[1].pc = "done"
    /\ req[1].method = "DELETE"
    /\ req[1].path = filePath
    /\ req[1].header = "wrong"
    /\ req[1].query = ""
    /\ req[1].status = StatusUnauthorized
    /\ readers[theFile] # NoMux
    /\ writers[theFile] # NoMux
    /\ handles["h1"].closed = 0
    /\ handles["h2"].closed = 0

(***************************************************************************)
(* C7 as stated: on a correctly prefixed path a request is answered 401    *)
(* exactly when neither the header nor the query carries the secret.       *)
(***************************************************************************)
C7_EitherCarrierAuthenticates ==
    \A r \in ReqIds : (req[r].pc = "done" /\ Prefixed(req[r])) =>
       ( (req[r].status # StatusUnauthorized)
         <=> (req[r].header = sharedSecret \/ req[r].query = sharedSecret) )

(***************************************************************************)
(* C7 amended: on a correctly prefixed path a request is authenticated     *)
(* (not answered 401) exactly when the header equals the secret, or the    *)
(* header is empty and the query parameter equals the secret; a header     *)
(* that is present and wrong is answered 401 whatever the query carries.   *)
(***************************************************************************)
C7_HeaderBeforeQuery ==
    \A r \in ReqIds : (req[r].pc # "idle" /\ Prefixed(req[r])) =>
       ( (req[r].status # StatusUnauthorized)
         <=> \/ req[r].header = sharedSecret
             \/ req[r].header = "" /\ req[r].query = sharedSecret )

\* the secret in the query only has been accepted, and the secret in the
\* query next to a wrong header is being refused
C7_Witness ==
    /\ req[1].pc = "done"
    /\ Prefixed(req[1])
    /\ req[1].header = "wrong"
    /\ req[1].query = sharedSecret
    /\ req[1].status = StatusUnauthorized
    /\ readers[theFile] # NoMux

(***************************************************************************)
(* SpecReg: any handle is registered as the reader or as the writer of     *)
(* one identifier, with any context, again and again, while contexts end,  *)
(* waiters run and DELETE requests arrive.  The handles are files that     *)
(* were just written: their position is at the end.  CloseIO is on or off. *)
(***************************************************************************)
WrittenFile(content) == [NewHandle(content) EXCEPT !.pos = Len(content)]

securedRequest(method, xrange, body) ==
    [method |-> method, path |-> filePath, header |-> sharedSecret,
     query |-> "", xrange |-> xrange, body |-> body]

RegInit ==
    /\ mux = [m \in MuxIds |-> FreeMux]
    /\ cur = [c \in CurIds |-> FreeCur]
    /\ readers = [id \in FileIDs |-> NoMux]
    /\ writers = [id \in FileIDs |-> NoMux]
    /\ \E b \in BOOLEAN :
          fs = [DefaultFlags EXCEPT !.closeReaders = b, !.closeWriters = b]
    /\ req = [r \in ReqIds |-> IdleReq]
    /\ waiters = {}
    /\ LockIdle
    /\ ctxDone = [c \in Ctxs |-> FALSE]
    /\ lastReg = NoReg
    /\ last = NoOp
    /\ logical = [c \in CurIds |-> 0]
    /\ handles = [h \in Handles |-> WrittenFile(Pattern(MaxSize))]
    /\ ref = Pattern(MaxSize)
    /\ cli = [i \in ClientIds |-> NoClient]

RegNext ==
    \/ \E h \in Handles, ctx \in Ctxs : RegisterReader(theFile, h, ctx)
    \/ \E h \in Handles, ctx \in Ctxs : RegisterWriter(theFile, h, ctx)
    \/ \E ctx \in Ctxs : Cancel(ctx)
    \/ \E wt \in waiters : Waiter(wt)
    \/ ServerStep(Request(1, securedRequest("DELETE", << >>, << >>)))
    \/ ServerStep(Respond(1))

SpecReg == RegInit /\ [][RegNext]_vars

(***************************************************************************)
(* C8: a registration of a reader (a writer) fails with ErrFileIDTaken     *)
(* exactly when the identifier has a reader (a writer) already, and then   *)
(* it changes no handle (no seek on the handle it was given), no map, no   *)
(* multiplexer and starts no waiter; it never changes the map of the       *)
(* other kind; and when the identifier is free for its kind and the        *)
(* handle can be sought, it succeeds and maps the identifier to the        *)
(* handle, whether or not the other kind is registered.                    *)
(***************************************************************************)
C8_TakenIdentifierIsRejected ==
    [][lastReg'.calls # lastReg.calls =>
         /\ lastReg'.kind = "r" =>
               /\ (lastReg'.err = ErrFileIDTaken) <=> (readers[lastReg'.fileID] # NoMux)
               /\ writers' = writers
               /\ readers[lastReg'.fileID] # NoMux =>
                     /\ handles' = handles
                     /\ readers' = readers
                     /\ mux' = mux
                     /\ waiters' = waiters
               /\ (readers[lastReg'.fileID] = NoMux /\ handles[lastReg'.h].closed = 0) =>
                     /\ lastReg'.err = NoErr
                     /\ readers'[lastReg'.fileID] # NoMux
                     /\ mux'[readers'[lastReg'.fileID]].h = lastReg'.h
         /\ lastReg'.kind = "w" =>
               /\ (lastReg'.err = ErrFileIDTaken) <=> (writers[lastReg'.fileID] # NoMux)
               /\ readers' = readers
               /\ writers[lastReg'.fileID] # NoMux =>
                     /\ handles' = handles
                     /\ writers' = writers
                     /\ mux' = mux
                     /\ waiters' = waiters
               /\ (writers[lastReg'.fileID] = NoMux /\ handles[lastReg'.h].closed = 0) =>
                     /\ lastReg'.err = NoErr
                     /\ writers'[lastReg'.fileID] # NoMux
                     /\ mux'[writers'[lastReg'.fileID]].h = lastReg'.h]_vars

\* the identifier has a reader on h1 and a writer, and a second reader, on
\* h2, has just been rejected: h2 is where it was, at its end
C8_Witness ==
    /\ readers[theFile] # NoMux
    /\ writers[theFile] # NoMux
    /\ mux[readers[theFile]].h = "h1"
    /\ lastReg.kind = "r"
    /\ lastReg.h = "h2"
    /\ lastReg.err = ErrFileIDTaken
    /\ handles["h2"].pos = MaxSize
    /\ handles["h2"].closed = 0

(***************************************************************************)
(* SpecExpire and SpecClose: the file h1 is registered as the reader of    *)
(* an identifier with the context ctx1 and the file h2 as its writer with  *)
(* ctx2, and the contexts end at any time.  In SpecExpire clients send     *)
(* reads and writes all along, and a waiter whose context is done gets to  *)
(* run; in SpecClose clients send DELETEs all along.                       *)
(***************************************************************************)
ExpireRequests ==
    { securedRequest("GET", FormatRange(0, 1), << >>),
      securedRequest("PATCH", FormatRange(0, 1), <<1>>),
      securedRequest("PATCH", <<"x">>, <<1>>),
      securedRequest("PUT", << >>, <<1>>) }

WaiterOf(kind) ==
    [kind |-> kind, fileID |-> theFile,
     ctx |-> IF kind = "r" THEN "ctx1" ELSE "ctx2"]

ExpireInit ==
    /\ ServerInit
    /\ handles = InitHandles(Pattern(MaxSize), << >>)
    /\ ref = handles["h1"].content
    /\ cli = [i \in ClientIds |-> NoClient]

ExpireRequest(r, rq) ==
    /\ handles["h2"].pos + Len(rq.body) <= MaxLen
    /\ ServerStep(Request(r, rq))

ExpireNext ==
    \/ RegisterReader(theFile, "h1", "ctx1")
    \/ RegisterWriter(theFile, "h2", "ctx2")
    \/ \E ctx \in {"ctx1", "ctx2"} : Cancel(ctx)
    \/ \E wt \in waiters : Waiter(wt)
    \/ \E rq \in ExpireRequests : ExpireRequest(1, rq)
    \/ \E r \in ReqIds : ServerStep(ReadSeek(r))
    \/ \E r \in ReqIds : ServerStep(ReadCopy(r))
    \/ \E r \in ReqIds : ServerStep(WriteSeek(r))
    \/ \E r \in ReqIds : ServerStep(WriteCopy(r))
    \/ \E r \in ReqIds : ServerStep(FullWrite(r))
    \/ \E r \in ReqIds : ServerStep(Respond(r))

\* the goroutine of a registration is scheduled once its context is done
WaiterFairness == \A kind \in {"r", "w"} : WF_vars(Waiter(WaiterOf(kind)))

SpecExpire == ExpireInit /\ [][ExpireNext]_vars /\ WaiterFairness

CloseNext ==
    \/ RegisterReader(theFile, "h1", "ctx1")
    \/ RegisterWriter(theFile, "h2", "ctx2")
    \/ \E ctx \in {"ctx1", "ctx2"} : Cancel(ctx)
    \/ \E wt \in waiters : Waiter(wt)
    \/ \E r \in ReqIds :
          ServerStep(Request(r, securedRequest("DELETE", << >>, << >>)))
    \/ \E r \in ReqIds : ServerStep(Respond(r))

SpecClose == ExpireInit /\ [][CloseNext]_vars

\* the identifier has no handle of the kind
Absent(kind) == IF kind = "r" THEN readers[theFile] = NoMux
                              ELSE writers[theFile] = NoMux

\* the kind's handle was registered, its context is done, its waiter has
\* run, and the identifier has no handle of the kind
RemovedAfterSignal(kind) ==
    /\ ctxDone[WaiterOf(kind).ctx]
    /\ WaiterOf(kind) \notin waiters
    /\ handles[IF kind = "r" THEN "h1" ELSE "h2"].closed > 0
    /\ Absent(kind)

\* the kind of handle a request is for
KindOf(q) == IF q.method = "GET" THEN "r" ELSE "w"

\* request r starts in this step
Starts(r) == req[r].pc = "idle" /\ req'[r].pc # "idle"

\* the X-Range header of q is two integers, an offset >= 0 and a length >= 1
WellFormedRange(q) ==
    /\ ScanRange(q.xrange).ok
    /\ ScanRange(q.xrange).offset >= 0
    /\ ScanRange(q.xrange).length >= MinumumBufferSize

(***************************************************************************)
(* C9 as stated: once a registration's context is done the identifier      *)
(* eventually has no handle of that kind, and every GET (for a reader),    *)
(* PATCH or PUT (for a writer) that starts after the removal is answered   *)
(* 404.                                                                    *)
(***************************************************************************)
C9_EveryRequestAfterRemovalIs404 ==
    [][\A r \in ReqIds :
          ( /\ Starts(r)
            /\ req'[r].method \in {"GET", "PATCH", "PUT"}
            /\ RemovedAfterSignal(KindOf(req'[r])) )
          => /\ req'[r].pc = "done"
             /\ req'[r].status = StatusNotFound]_vars

(***************************************************************************)
(* C9 amended: once a registration's context is done the identifier        *)
(* eventually has no handle of that kind (the waiter being scheduled),     *)
(* and every GET (for a reader), every PATCH with a well-formed X-Range    *)
(* and every PUT while full-write is enabled (for a writer) that starts    *)
(* after the removal is answered 404 at once; a PATCH whose X-Range is     *)
(* malformed is answered 400 whether or not the writer is there.           *)
(***************************************************************************)
C9_SignalRemovesThen404 ==
    /\ \A kind \in {"r", "w"} :
          (WaiterOf(kind) \in waiters /\ ctxDone[WaiterOf(kind).ctx])
             ~> Absent(kind)
    /\ [][\A r \in ReqIds :
             ( /\ Starts(r)
               /\ RemovedAfterSignal(KindOf(req'[r])) )
             => /\ req'[r].method = "GET" =>
                      req'[r].pc = "done" /\ req'[r].status = StatusNotFound
                /\ (req'[r].method = "PATCH" /\ WellFormedRange(req'[r])) =>
                      req'[r].pc = "done" /\ req'[r].status = StatusNotFound
                /\ (req'[r].method = "PATCH" /\ ~WellFormedRange(req'[r])) =>
                      req'[r].pc = "done" /\ req'[r].status = StatusBadRequest
                /\ (req'[r].method = "PUT" /\ fs.allowPUT) =>
                      req'[r].pc = "done" /\ req'[r].status = StatusNotFound]_vars

\* the reader's context is done, its waiter has closed and removed the
\* reader, and a GET that came after it has been answered 404
C9_Witness ==
    /\ RemovedAfterSignal("r")
    /\ handles["h1"].closed = 1
    /\ req[1].pc = "done"
    /\ req[1].method = "GET"
    /\ req[1].status = StatusNotFound
    /\ writers[theFile] # NoMux

OwnerOf(wt) == IF wt.ctx = "ctx1" THEN "h1" ELSE "h2"

\* the identifier of waiter wt maps, for wt's kind, to the handle wt's
\* registration was given
HoldsOwn(wt) ==
    LET m == Lookup(IF wt.kind = "r" THEN readers ELSE writers, wt.fileID)
    IN  m # NoMux /\ mux[m].h = OwnerOf(wt)

ReuseNext ==
    \/ RegisterReader(theFile, "h1", "ctx1")
    \/ RegisterReader(theFile, "h2", "ctx2")
    \/ RegisterWriter(theFile, "h1", "ctx1")
    \/ RegisterWriter(theFile, "h2", "ctx2")
    \/ \E ctx \in {"ctx1", "ctx2"} : Cancel(ctx)
    \/ \E wt \in waiters : Waiter(wt)
    \/ ServerStep(Request(1, securedRequest("DELETE", << >>, << >>)))
    \/ ServerStep(Respond(1))

SpecReuse == RegInit /\ [][ReuseNext]_vars

(***************************************************************************)
(* C11 as stated: the waiter of a registration removes or closes only the  *)
(* handle that registration was given: when it runs while the identifier   *)
(* does not map to that handle (an explicit close removed it, whatever was *)
(* registered under the identifier since), it changes no map and closes    *)
(* no handle.                                                              *)
(***************************************************************************)
C11_WaiterTouchesOnlyItsOwnHandle ==
    [][\A wt \in waiters :
          (wt \notin waiters' /\ ~HoldsOwn(wt))
             => UNCHANGED <<handles, readers, writers>>]_vars

(***************************************************************************)
(* SpecDelete: clients close the remote file (file.Close, a DELETE) again  *)
(* and again while h1 is registered as the reader and h2 as the writer of  *)
(* the identifier, contexts end and waiters run.  CloseIO is on or off.    *)
(***************************************************************************)
\* file.close: the DELETE request
closeRequest(cl) ==
    [method |-> "DELETE", path |-> urlPrefix \o <<"/">> \o cl.fileID,
     header |-> sharedSecret, query |-> "", xrange |-> << >>, body |-> << >>]

\* file.close after client.Do
file_close(q) ==
    IF q.aborted THEN ErrTransport
    ELSE responseCodeToError(q.status, StatusNoContent)

\* file.Close; got keeps the results of the last two calls
file_Close(cl, q) ==
    LET err == file_close(q)
    IN  [cl EXCEPT !.err = err, !.pc = "ready",
                   !.got = IF Len(cl.got) < 2 THEN Append(cl.got, err)
                           ELSE <<cl.got[2], err>>]

\* a Close call sends its request
CloseCall(i) ==
    /\ cli[i].kind # "none"
    /\ cli[i].pc = "ready"
    /\ Request(i, closeRequest(cli[i]))
    /\ cli' = [cli EXCEPT ![i].pc = "wait", ![i].calls = Min(cli[i].calls + 1, 2)]
    /\ UNCHANGED <<fs, lockVars, waiters, ctxDone, lastReg, last, logical, ref>>

\* a Close call returns
CloseReturn(i) ==
    /\ cli[i].kind # "none"
    /\ cli[i].pc = "wait"
    /\ req[i].pc = "done"
    /\ req[i].method = "DELETE"
    /\ cli' = [cli EXCEPT ![i] = file_Close(cli[i], req[i])]
    /\ req' = [req EXCEPT ![i] = IdleReq]
    /\ UNCHANGED <<handles, mux, cur, readers, writers, fs, lockVars, waiters, ctxDone,
                   lastReg, last, logical, ref>>

DeleteInit ==
    /\ mux = [m \in MuxIds |-> FreeMux]
    /\ cur = [c \in CurIds |-> FreeCur]
    /\ readers = [id \in FileIDs |-> NoMux]
    /\ writers = [id \in FileIDs |-> NoMux]
    /\ \E b \in BOOLEAN :
          fs = [DefaultFlags EXCEPT !.closeReaders = b, !.closeWriters = b]
    /\ req = [r \in ReqIds |-> IdleReq]
    /\ waiters = {}
    /\ LockIdle
    /\ ctxDone = [c \in Ctxs |-> FALSE]
    /\ lastReg = NoReg
    /\ last = NoOp
    /\ logical = [c \in CurIds |-> 0]
    /\ handles = InitHandles(Pattern(MaxSize), << >>)
    /\ ref = Pattern(MaxSize)
    /\ cli = [i \in ClientIds |-> NewReader(theFile, 1)]

DeleteNext ==
    \/ RegisterReader(theFile, "h1", "ctx1")
    \/ RegisterWriter(theFile, "h2", "ctx2")
    \/ \E ctx \in {"ctx1", "ctx2"} : Cancel(ctx)
    \/ \E wt \in waiters : Waiter(wt)
    \/ \E i \in ClientIds : CloseCall(i)
    \/ \E i \in ClientIds : CloseReturn(i)

SpecDelete == DeleteInit /\ [][DeleteNext]_vars

(***************************************************************************)
(* C12: with close enabled a DELETE leaves the identifier with neither     *)
(* reader nor writer, and is answered 204 when it removed at least one of  *)
(* them and 404 when there was neither; an identifier gets a reader or a   *)
(* writer only by a registration, so a DELETE that follows another one     *)
(* with no registration in between is answered 404; the client's Close     *)
(* returns nil for a 204 and ErrUnknownFile for a 404; and no request      *)
(* handler is aborted.                                                     *)
(***************************************************************************)
C12_DeleteRemovesBothThen404 ==
    /\ [](\A r \in ReqIds : ~req[r].aborted)
    /\ [][ /\ \A r \in ReqIds :
                (Starts(r) /\ req'[r].method = "DELETE") =>
                   /\ req'[r].pc = "done"
                   /\ readers'[theFile] = NoMux
                   /\ writers'[theFile] = NoMux
                   /\ req'[r].status = IF Absent("r") /\ Absent("w")
                                         THEN StatusNotFound
                                         ELSE StatusNoContent
           /\ ( \/ readers[theFile] = NoMux /\ readers'[theFile] # NoMux
                \/ writers[theFile] = NoMux /\ writers'[theFile] # NoMux )
                 => lastReg'.calls # lastReg.calls
           /\ \A i \in ClientIds :
                (cli[i].pc = "wait" /\ cli'[i].pc = "ready") =>
                   /\ req[i].status = StatusNoContent => cli'[i].err = NoErr
                   /\ req[i].status = StatusNotFound =>
                         cli'[i].err = ErrUnknownFile ]_vars

\* a client's first Close removed the reader and the writer and returned
\* nil, its second Close returned ErrUnknownFile
C12_Witness ==
    /\ cli[1].pc = "ready"
    /\ cli[1].got = <<NoErr, ErrUnknownFile>>
    /\ Absent("r")
    /\ Absent("w")
    /\ handles["h1"].closed = 1
    /\ handles["h2"].closed = 1

(***************************************************************************)
(* SpecRange: a registered reader of 0..MaxSize bytes is read at any       *)
(* offset, up to and beyond its end: by a client's ReadAt calls with a     *)
(* buffer of a fixed size (slot 1; last is the call made) and by ranged    *)
(* GET requests of any offset and length (slot 2), at the same time.       *)
(***************************************************************************)
RangeOffsets == 0..(MaxSize + 1)

\* Reader.ReadAt: the offset of the Reader stays; got is what the call read
Reader_ReadAt(cl, q, k) ==
    LET r == reader_read(cl, q, k)
    IN  [cl EXCEPT !.got = r.out, !.n = r.n, !.err = r.err, !.pc = "ready"]

\* a ReadAt call sends its request
ReadAtCall(i, o) ==
    /\ cli[i].kind = "reader"
    /\ cli[i].pc = "ready"
    /\ Request(i, clientRequest([cli[i] EXCEPT !.offset = o], "GET",
                                cli[i].blen, << >>))
    /\ cli' = [cli EXCEPT ![i].pc = "wait", ![i].calls = Min(cli[i].calls + 1, 2)]
    /\ last' = [NoOp EXCEPT !.op = "readat", !.off = o, !.plen = cli[i].blen]
    /\ UNCHANGED <<fs, lockVars, waiters, ctxDone, lastReg, logical, ref>>

\* a ReadAt call returns
ReadAtReturn(i) ==
    /\ cli[i].kind = "reader"
    /\ cli[i].pc = "wait"
    /\ req[i].pc = "done"
    /\ \E k \in 1..cli[i].blen :
          cli' = [cli EXCEPT ![i] = Reader_ReadAt(cli[i], req[i], k)]
    /\ req' = [req EXCEPT ![i] = IdleReq]
    /\ UNCHANGED <<handles, mux, cur, readers, writers, fs, lockVars, waiters, ctxDone,
                   lastReg, last, logical, ref>>

RangeInit ==
    /\ ServerInit
    /\ \E n \in 0..MaxSize, b \in 1..MaxLen :
          /\ handles = InitHandles(Pattern(n), << >>)
          /\ ref = Pattern(n)
          /\ cli = [i \in ClientIds |->
                      IF i = 1 THEN NewReader(theFile, b) ELSE NoClient]

RangeNext ==
    \/ RegisterReader(theFile, "h1", "background")
    \/ \E o \in RangeOffsets : readers[theFile] # NoMux /\ ReadAtCall(1, o)
    \/ ReadAtReturn(1)
    \/ \E o \in RangeOffsets, l \in 1..MaxLen :
          /\ readers[theFile] # NoMux
          /\ ServerStep(Request(2, rangedRequest("GET", o, l, << >>)))
    \/ \E r \in ReqIds : ServerStep(ReadSeek(r))
    \/ \E r \in ReqIds : ServerStep(ReadCopy(r))
    \/ ServerStep(Respond(2))

SpecRange == RangeInit /\ [][RangeNext]_vars

(***************************************************************************)
(* C13: a ranged read whose offset is at or beyond the end of the handle's *)
(* content is answered 206 with an empty body, never with an error status, *)
(* and the client's ReadAt at such an offset returns (0, io.EOF).          *)
(***************************************************************************)
C13_ReadPastEndIsEOF ==
    /\ \A r \in ReqIds :
          (req[r].pc # "idle" /\ req[r].off >= Len(ref)) =>
             /\ req[r].status = StatusPartialContent
             /\ req[r].out = << >>
    /\ (cli[1].pc = "ready" /\ cli[1].calls > 0 /\ last.off >= Len(ref)) =>
          /\ cli[1].n = 0
          /\ cli[1].err = EOF
          /\ cli[1].got = << >>

\* a ReadAt beyond the end of a file that has bytes has returned (0, io.EOF)
C13_Witness ==
    /\ cli[1].pc = "ready"
    /\ cli[1].calls > 0
    /\ Len(ref) > 0
    /\ last.off > Len(ref)
    /\ cli[1].n = 0
    /\ cli[1].err = EOF

PatchBodies == { [i \in 1..n |-> 9] : n \in 0..(MaxLen + 1) }

PatchInit ==
    /\ ServerInit
    /\ \E n \in {0, MaxSize} :
          /\ handles = InitHandles(<< >>, Pattern(n))
          /\ ref = Pattern(n)
    /\ cli = [i \in ClientIds |-> NoClient]

PatchRequest(o, l, b) ==
    /\ writers[theFile] # NoMux
    /\ Request(1, rangedRequest("PATCH", o, l, b))
    /\ last' = [NoOp EXCEPT !.op = "patch", !.off = o, !.plen = l, !.arg = b]
    /\ ref' = handles["h2"].content
    /\ UNCHANGED <<fs, lockVars, waiters, ctxDone, lastReg, cli, logical>>

PatchNext ==
    \/ RegisterWriter(theFile, "h2", "background")
    \/ \E o \in 0..MaxOff, l \in 1..MaxLen, b \in PatchBodies : PatchRequest(o, l, b)
    \/ ServerStep(WriteSeek(1))
    \/ ServerStep(WriteCopy(1))
    \/ ServerStep(Respond(1))

SpecPatch == PatchInit /\ [][PatchNext]_vars

(***************************************************************************)
(* C15 as stated: a ranged PATCH with the declared range offset-length     *)
(* changes the handle only at the positions [offset, offset+length) and    *)
(* writes no more than length bytes, whatever the size of its body, and    *)
(* one that is acknowledged has written length bytes of the body there.    *)
(***************************************************************************)
C15_WritesOnlyTheDeclaredRange ==
    last.op = "patch" =>
       LET c == handles["h2"].content
       IN  /\ Len(c) <= Max(Len(ref), last.off + last.plen)
           /\ \A i \in 1..Len(c) :
                 (i <= last.off \/ i > last.off + last.plen) =>
                    c[i] = IF i <= Len(ref) THEN ref[i] ELSE 0
           /\ (req[1].pc = "done" /\ req[1].status = StatusNoContent) =>
                 /\ Len(last.arg) >= last.plen
                 /\ \A i \in 1..last.plen : c[last.off + i] = last.arg[i]

(***************************************************************************)
(* C16: a ranged PATCH whose body holds exactly the declared number of     *)
(* bytes is answered 204 with the response header X-Range: offset-length,  *)
(* which the client's Writer.write accepts for a buffer of that length at  *)
(* that offset; a PATCH whose body is shorter or longer than declared is   *)
(* answered 400.                                                           *)
(***************************************************************************)
C16_ExactBody204ElseBadRequest ==
    (last.op = "patch" /\ req[1].pc = "done") =>
       /\ Len(last.arg) = last.plen =>
             /\ req[1].status = StatusNoContent
             /\ req[1].xr = FormatRange(last.off, last.plen)
             /\ writer_write([NoClient EXCEPT !.offset = last.off], req[1],
                             last.plen) = [n |-> last.plen, err |-> NoErr]
       /\ Len(last.arg) # last.plen =>
             /\ req[1].status = StatusBadRequest
             /\ req[1].xr = << >>

\* a PATCH of MaxLen bytes beyond the start of a file has been acknowledged
C16_Witness ==
    /\ last.op = "patch"
    /\ req[1].pc = "done"
    /\ req[1].status = StatusNoContent
    /\ last.off > 0
    /\ last.plen = MaxLen
    /\ Len(last.arg) = MaxLen
    /\ req[1].xr = FormatRange(last.off, MaxLen)
    /\ Len(ref) > 0

(***************************************************************************)
(* SpecAnswer: a Writer calls Write again and again, whatever the last     *)
(* call returned, and gets any response to its request: any status, with   *)
(* or without an X-Range header, well-formed or not, naming its offset and *)
(* length or other ones, or no response at all.  last is the call and the  *)
(* response it got.                                                        *)
(***************************************************************************)
AnswerStatuses == {StatusNoContent, StatusOK, StatusPartialContent,
                   StatusBadRequest, StatusNotFound, HTTPCodeShortWrite,
                   StatusInternalServerError}
AnswerRanges ==
    {<< >>, <<"x">>, <<"1">>, <<"1", "-">>, <<"-", "1">>}
       \cup { FormatRange(o, l) : o \in 0..(MaxOff + 1), l \in 0..(MaxLen + 1) }
       \cup { FormatRange(o, l) \o <<"x">> : o \in 0..1, l \in 1..2 }
Answers ==
    { [IdleReq EXCEPT !.pc = "done", !.method = "PATCH", !.status = st,
                      !.xr = x, !.aborted = FALSE] :
         st \in AnswerStatuses, x \in AnswerRanges }
       \cup { [IdleReq EXCEPT !.pc = "done", !.method = "PATCH",
                              !.aborted = TRUE] }

AnswerInit ==
    /\ ServerInit
    /\ handles = InitHandles(<< >>, << >>)
    /\ ref = Pattern(MaxSize)
    /\ cli = [i \in ClientIds |->
                IF i = 1 THEN NewWriter(theFile, Pattern(MaxSize)) ELSE NoClient]

\* Write(buf) with a buffer of k bytes sends its request
AnswerCall(i, k) ==
    /\ cli[i].kind = "writer"
    /\ cli[i].pc \in {"ready", "failed"}
    /\ cli[i].offset <= MaxOff
    /\ k <= Len(cli[i].src)
    /\ cli' = [cli EXCEPT ![i].pc = "wait", ![i].blen = k,
                          ![i].calls = Min(cli[i].calls + 1, 2)]
    /\ last' = [NoOp EXCEPT !.op = "write", !.off = cli[i].offset, !.plen = k]
    /\ UNCHANGED <<handles, mux, cur, readers, writers, fs, lockVars, req, waiters,
                   ctxDone, lastReg, logical, ref>>

\* client.Do returns the response a
Answer(i, a) ==
    /\ cli[i].pc = "wait"
    /\ req[i].pc = "idle"
    /\ req' = [req EXCEPT ![i] = a]
    /\ last' = [last EXCEPT !.n = a.status, !.arg = a.xr, !.sought = a.aborted]
    /\ UNCHANGED <<handles, mux, cur, readers, writers, fs, lockVars, waiters, ctxDone,
                   lastReg, cli, logical, ref>>

AnswerNext ==
    \/ \E k \in 1..MaxLen : AnswerCall(1, k)
    \/ \E a \in Answers : Answer(1, a)
    \/ WriteReturn(1)

SpecAnswer == AnswerInit /\ [][AnswerNext]_vars

\* the response of the last call is a 204 whose X-Range parses to the offset
\* and the length of the call
AnswerMatches ==
    /\ ~last.sought
    /\ last.n = StatusNoContent
    /\ ScanRange(last.arg).ok
    /\ ScanRange(last.arg).offset = last.off
    /\ ScanRange(last.arg).length = last.plen

(***************************************************************************)
(* C17: Writer.Write returns (len(buf), nil), and moves the Writer's       *)
(* offset on by len(buf), only when the response is a 204 whose X-Range    *)
(* header parses to the offset and the length of the call; for every other *)
(* response (another status, a missing or unparsable header, another       *)
(* offset, another length, no response) it returns 0 and an error and      *)
(* leaves the offset where it was.                                         *)
(***************************************************************************)
C17_WriteTrustsOnlyItsOwnRange ==
    (last.op = "write" /\ cli[1].pc \in {"ready", "failed"}) =>
       /\ AnswerMatches =>
             /\ cli[1].n = last.plen
             /\ cli[1].err = NoErr
             /\ cli[1].offset = last.off + last.plen
       /\ ~AnswerMatches =>
             /\ cli[1].n = 0
             /\ cli[1].err # NoErr
             /\ cli[1].offset = last.off

\* a Write at an offset beyond 0 got a 204 that names another length, and
\* returned an error with the offset where it was
C17_Witness ==
    /\ last.op = "write"
    /\ cli[1].pc = "failed"
    /\ last.off > 0
    /\ last.n = StatusNoContent
    /\ ScanRange(last.arg).ok
    /\ ScanRange(last.arg).offset = last.off
    /\ ScanRange(last.arg).length # last.plen
    /\ cli[1].err = ErrServerLength
    /\ cli[1].offset = last.off

(***************************************************************************)
(* SpecStat: OPTIONS requests while h1 (MaxSize bytes) is registered as    *)
(* the reader and h2 (empty) as the writer of the identifier, or not yet,  *)
(* or not any more: DELETE requests arrive at the same time.  Stat is      *)
(* allowed or not, file names are disclosed or not, and each handle is a   *)
(* Statter or not.                                                         *)
(***************************************************************************)
StatInit ==
    /\ mux = [m \in MuxIds |-> FreeMux]
    /\ cur = [c \in CurIds |-> FreeCur]
    /\ readers = [id \in FileIDs |-> NoMux]
    /\ writers = [id \in FileIDs |-> NoMux]
    /\ \E a \in BOOLEAN, d \in BOOLEAN :
          fs = [DefaultFlags EXCEPT !.allowStat = a, !.discloseFilenames = d]
    /\ req = [r \in ReqIds |-> IdleReq]
    /\ waiters = {}
    /\ LockIdle
    /\ ctxDone = [c \in Ctxs |-> FALSE]
    /\ lastReg = NoReg
    /\ last = NoOp
    /\ logical = [c \in CurIds |-> 0]
    /\ \E s1 \in BOOLEAN, s2 \in BOOLEAN :
          handles = [h \in Handles |->
                       IF h = "h1"
                         THEN [NewHandle(Pattern(MaxSize)) EXCEPT !.stat = s1]
                         ELSE [NewHandle(<< >>) EXCEPT !.stat = s2]]
    /\ ref = Pattern(MaxSize)
    /\ cli = [i \in ClientIds |-> NoClient]

StatNext ==
    \/ RegisterReader(theFile, "h1", "background")
    \/ RegisterWriter(theFile, "h2", "background")
    \/ \E r \in ReqIds :
          ServerStep(Request(r, securedRequest("OPTIONS", << >>, << >>)))
    \/ \E r \in ReqIds : ServerStep(Stat(r))
    \/ \E r \in ReqIds :
          ServerStep(Request(r, securedRequest("DELETE", << >>, << >>)))
    \/ \E r \in ReqIds : ServerStep(Respond(r))

SpecStat == StatInit /\ [][StatNext]_vars

\* the handle statFile selects: the reader's, the writer's when there is no
\* reader
Selected ==
    IF readers[theFile] # NoMux THEN mux[readers[theFile]].h
    ELSE IF writers[theFile] # NoMux THEN mux[writers[theFile]].h
    ELSE NoHandle

\* what a stat response says of the handle h
InfoOf(q, h) ==
    /\ q.status = StatusOK
    /\ q.size = Len(handles[h].content)
    /\ q.name = IF fs.discloseFilenames THEN HandleName(h) ELSE q.fileID
    /\ jsonDecode(q.json) = [ok |-> TRUE, size |-> q.size]

C20_ContentLengthIsFileSize ==
    \A r \in ReqIds :
       (req[r].pc = "done" /\ req[r].method = "OPTIONS"
          /\ req[r].status = StatusOK) =>
             SentContentLength(req[r]) = Itoa(req[r].size)

(***************************************************************************)
(* The client's Seek.  SeekStart and SeekCurrent work on the logical       *)
(* offset alone; SeekEnd asks the server for the size first.               *)
(***************************************************************************)
ErrDecode == "invalid file info"

\* file.stat: the OPTIONS request
statRequest(cl) ==
    [method |-> "OPTIONS", path |-> urlPrefix \o <<"/">> \o cl.fileID,
     header |-> sharedSecret, query |-> "", xrange |-> << >>, body |-> << >>]

\* file.stat after client.Do: the status, then the JSON body decoded
file_stat(q) ==
    LET err == responseCodeToError(q.status, StatusOK)
        fi == jsonDecode(q.json)
    IN  IF q.aborted THEN [size |-> 0, err |-> ErrTransport]
        ELSE IF err # NoErr THEN [size |-> 0, err |-> err]
        ELSE IF ~fi.ok THEN [size |-> 0, err |-> ErrDecode]
        ELSE [size |-> fi.size, err |-> NoErr]

\* file.Seek that takes SeekCurrent for SeekStart
file_Seek_CurrentAsStart(cl, offset, whence, st) ==
    CASE whence \in {SeekStart, SeekCurrent} ->
           [cl EXCEPT !.offset = offset, !.n = offset, !.err = NoErr]
      [] whence = SeekEnd ->
           IF st.err # NoErr THEN [cl EXCEPT !.n = 0, !.err = st.err]
           ELSE [cl EXCEPT !.offset = st.size + offset,
                           !.n = st.size + offset, !.err = NoErr]
      [] OTHER -> [cl EXCEPT !.n = 0, !.err = ErrUnsupportedOperation]

\* file.Seek; st is what f.stat() returned, looked at for SeekEnd only;
\* n and err are the values returned
file_Seek(cl, offset, whence, st) ==
    CASE whence = SeekStart ->
           [cl EXCEPT !.offset = offset, !.n = offset, !.err = NoErr]
      [] whence = SeekCurrent ->
           [cl EXCEPT !.offset = cl.offset + offset,
                      !.n = cl.offset + offset, !.err = NoErr]
      [] whence = SeekEnd ->
           IF st.err # NoErr THEN [cl EXCEPT !.n = 0, !.err = st.err]
           ELSE [cl EXCEPT !.offset = st.size + offset,
                           !.n = st.size + offset, !.err = NoErr]
      [] OTHER -> [cl EXCEPT !.n = 0, !.err = ErrUnsupportedOperation]

(***************************************************************************)
(* SpecSeek: one Reader on a file of 0 or MaxSize bytes seeks and reads.   *)
(* last is the Seek call made last: its offset argument (n) and its whence *)
(* (plen); got is what the Reads since that call delivered.  The server    *)
(* allows stat or not and the handle is a Statter or not.                  *)
(***************************************************************************)
SeekOffsets == (0 - 1)..(MaxSize + 1)
SeekArgs == (0 - (MaxSize + 1))..(MaxSize + 1)
Whences == {SeekStart, SeekCurrent, SeekEnd, 3}
Waiting == {"wait", "statwait"}

SeekInit ==
    /\ ServerInit
    /\ \E n \in {0, MaxSize}, b \in 1..MaxLen, s \in BOOLEAN, a \in BOOLEAN :
          /\ handles = [h \in Handles |->
                          IF h = "h1" THEN [NewHandle(Pattern(n)) EXCEPT !.stat = s]
                          ELSE NewHandle(<< >>)]
          /\ ref = Pattern(n)
          /\ fs = [DefaultFlags EXCEPT !.allowStat = a]
          /\ cli = [i \in ClientIds |->
                      IF i = 1 THEN NewReader(theFile, b) ELSE NoClient]

\* Seek(d, whence) with a whence other than SeekEnd: the call returns at once
SeekCall(i, d, whence) ==
    /\ cli[i].kind = "reader"
    /\ cli[i].pc \notin Waiting
    /\ whence # SeekEnd
    /\ LET cl == file_Seek(cli[i], d, whence, [size |-> 0, err |-> NoErr])
       IN  /\ cl.offset \in SeekOffsets
           /\ cli' = [cli EXCEPT ![i] = [cl EXCEPT !.pc = "ready", !.got = << >>]]
    /\ last' = [NoOp EXCEPT !.op = "seek", !.n = d, !.plen = whence]
    /\ UNCHANGED <<handles, mux, cur, readers, writers, fs, lockVars, req, waiters,
                   ctxDone, lastReg, logical, ref>>

\* Seek(d, SeekEnd) sends the stat request
SeekEndCall(i, d) ==
    /\ cli[i].kind = "reader"
    /\ cli[i].pc \notin Waiting
    /\ Len(ref) + d \in SeekOffsets
    /\ Request(i, statRequest(cli[i]))
    /\ cli' = [cli EXCEPT ![i].pc = "statwait", ![i].got = << >>]
    /\ last' = [NoOp EXCEPT !.op = "seek", !.n = d, !.plen = SeekEnd]
    /\ UNCHANGED <<fs, lockVars, waiters, ctxDone, lastReg, logical, ref>>

\* Seek(d, SeekEnd) returns
SeekEndReturn(i) ==
    /\ cli[i].pc = "statwait"
    /\ req[i].pc = "done"
    /\ cli' = [cli EXCEPT ![i] = [file_Seek(cli[i], last.n, SeekEnd,
                                            file_stat(req[i]))
                                    EXCEPT !.pc = "ready"]]
    /\ req' = [req EXCEPT ![i] = IdleReq]
    /\ UNCHANGED <<handles, mux, cur, readers, writers, fs, lockVars, waiters, ctxDone,
                   lastReg, last, logical, ref>>

SeekNext ==
    \/ RegisterReader(theFile, "h1", "background")
    \/ \E d \in SeekArgs, whence \in Whences : SeekCall(1, d, whence)
    \/ \E d \in SeekArgs : SeekEndCall(1, d)
    \/ ServerStep(Stat(1))
    \/ SeekEndReturn(1)
    \/ readers[theFile] # NoMux /\ ReadCall(1)
    \/ ServerStep(ReadSeek(1))
    \/ ServerStep(ReadCopy(1))
    \/ ReadReturn(1)

SpecSeek == SeekInit /\ [][SeekNext]_vars

(***************************************************************************)
(* C18: Seek(o, SeekStart) sets the client's offset to o and               *)
(* Seek(d, SeekCurrent) to the previous offset plus d, without a request;  *)
(* Seek(d, SeekEnd) sends one stat request and sets the offset to the size *)
(* of the remote file plus d; each returns the new offset; when the stat   *)
(* fails or whence is none of the three, Seek returns an error and the     *)
(* offset stays; a Read that follows delivers the file's bytes from the    *)
(* new offset on.                                                          *)
(***************************************************************************)
C18_SeekMovesTheOffsetReadFollows ==
    /\ [][(cli[1].pc \notin Waiting /\ cli'[1].pc \notin Waiting
             /\ cli'[1] # cli[1]) =>
            /\ req' = req
            /\ last'.op = "seek"
            /\ last'.plen = SeekStart =>
                  /\ cli'[1].offset = last'.n
                  /\ cli'[1].n = last'.n
                  /\ cli'[1].err = NoErr
            /\ last'.plen = SeekCurrent =>
                  /\ cli'[1].offset = cli[1].offset + last'.n
                  /\ cli'[1].n = cli'[1].offset
                  /\ cli'[1].err = NoErr
            /\ last'.plen \notin {SeekStart, SeekCurrent} =>
                  /\ last'.plen # SeekEnd
                  /\ cli'[1].offset = cli[1].offset
                  /\ cli'[1].n = 0
                  /\ cli'[1].err = ErrUnsupportedOperation]_vars
    /\ [][(cli[1].pc # "statwait" /\ cli'[1].pc = "statwait") =>
            /\ last'.plen = SeekEnd
            /\ req[1].pc = "idle"
            /\ req'[1].method = "OPTIONS"
            /\ req'[2] = req[2]
            /\ cli'[1].offset = cli[1].offset]_vars
    /\ [][(cli[1].pc = "statwait" /\ cli'[1].pc # "statwait") =>
            /\ req'[1] = IdleReq
            /\ req'[2] = req[2]
            /\ IF req[1].status = StatusOK
                 THEN /\ cli'[1].offset = Len(ref) + last.n
                      /\ cli'[1].n = cli'[1].offset
                      /\ cli'[1].err = NoErr
                 ELSE /\ cli'[1].offset = cli[1].offset
                      /\ cli'[1].n = 0
                      /\ cli'[1].err # NoErr]_vars
    /\ [][(cli[1].pc = "wait" /\ cli'[1].pc # "wait" /\ cli[1].offset >= 0) =>
            /\ cli'[1].err \in {NoErr, EOF}
            /\ cli[1].offset < Len(ref) => cli'[1].n >= 1
            /\ cli[1].offset + cli'[1].n <= Max(cli[1].offset, Len(ref))
            /\ cli'[1].got = cli[1].got \o SubSeq(ref, cli[1].offset + 1,
                                                  cli[1].offset + cli'[1].n)
            /\ cli'[1].offset = cli[1].offset + cli'[1].n]_vars
    /\ [](cli[1].got # << >> =>
            /\ Len(cli[1].got) <= cli[1].offset
            /\ cli[1].offset <= Len(ref)
            /\ cli[1].got = SubSeq(ref, cli[1].offset - Len(cli[1].got) + 1,
                                   cli[1].offset))

\* after Seek(-1, SeekEnd) on a file of MaxSize bytes, a Read has delivered
\* the last byte of the file
C18_Witness ==
    /\ last.op = "seek"
    /\ last.plen = SeekEnd
    /\ last.n = 0 - 1
    /\ Len(ref) = MaxSize
    /\ cli[1].pc = "ready"
    /\ cli[1].calls > 0
    /\ cli[1].got = <<ref[MaxSize]>>
    /\ cli[1].offset = MaxSize

(***************************************************************************)
(* SpecDisclose: two files of the same content and of different names, h1  *)
(* and h2, are served under the identifier one after the other or          *)
(* together, h1 as the reader and h2 as the writer, and stat requests are  *)
(* answered from the one or the other.  The registrations end with their   *)
(* context, which closes the files.                                        *)
(***************************************************************************)
DiscloseInit ==
    /\ mux = [m \in MuxIds |-> FreeMux]
    /\ cur = [c \in CurIds |-> FreeCur]
    /\ readers = [id \in FileIDs |-> NoMux]
    /\ writers = [id \in FileIDs |-> NoMux]
    /\ \E d \in BOOLEAN : fs = [DefaultFlags EXCEPT !.discloseFilenames = d]
    /\ req = [r \in ReqIds |-> IdleReq]
    /\ waiters = {}
    /\ LockIdle
    /\ ctxDone = [c \in Ctxs |-> FALSE]
    /\ lastReg = NoReg
    /\ last = NoOp
    /\ logical = [c \in CurIds |-> 0]
    /\ \E n \in {0, MaxSize} :
          /\ handles = [h \in Handles |-> NewHandle(Pattern(n))]
          /\ ref = Pattern(n)
    /\ cli = [i \in ClientIds |-> NoClient]

DiscloseNext ==
    \/ RegisterReader(theFile, "h1", "ctx1")
    \/ RegisterWriter(theFile, "h2", "ctx1")
    \/ Cancel("ctx1")
    \/ \E wt \in waiters : Waiter(wt)
    \/ \E r \in ReqIds :
          ServerStep(Request(r, securedRequest("OPTIONS", << >>, << >>)))
    \/ \E r \in ReqIds : ServerStep(Stat(r))
    \/ \E r \in ReqIds : ServerStep(Respond(r))

SpecDisclose == DiscloseInit /\ [][DiscloseNext]_vars

\* what the client receives of a response
Received(q) == <<q.status, SentContentLength(q), q.json, q.msg, q.out>>

(***************************************************************************)
(* C21 as stated: with filename disclosure disabled the name of every stat *)
(* response is the request's identifier and the real name of the handle    *)
(* never reaches the client: the stat responses of the same status that    *)
(* two handles of equal content and of different names are answered with   *)
(* are identical; with disclosure enabled the name is the handle's own.    *)
(***************************************************************************)
C21_RealNameNeverReachesClient ==
    /\ [][\A r \in ReqIds :
            (req[r].pc = "stat" /\ req'[r].pc = "done"
               /\ req'[r].status = StatusOK) =>
                  /\ req'[r].name = IF fs.discloseFilenames
                                      THEN HandleName(req[r].h)
                                      ELSE req[r].fileID
                  /\ req'[r].json = jsonMarshal(req'[r].name, Len(ref))]_vars
    /\ [](~fs.discloseFilenames =>
            \A r1 \in ReqIds, r2 \in ReqIds :
               (/\ req[r1].pc = "done"
                /\ req[r2].pc = "done"
                /\ req[r1].status = req[r2].status) =>
                     Received(req[r1]) = Received(req[r2]))

(***************************************************************************)
(* SpecFlags: a server with any setting of its four feature flags, a       *)
(* reader (h1) and a writer (h2) registered or not, serves authenticated   *)
(* requests of every method on the path of the identifier.                 *)
(***************************************************************************)
FeatureFlags ==
    { [DefaultFlags EXCEPT !.allowStat = a, !.allowClose = c,
                           !.allowFullGET = g, !.allowPUT = p] :
      a \in BOOLEAN, c \in BOOLEAN, g \in BOOLEAN, p \in BOOLEAN }

FlagRequests ==
    { rq \in HttpRequests :
         rq.path = filePath /\ rq.header = sharedSecret /\ rq.query = "" }

FlagInit ==
    /\ mux = [m \in MuxIds |-> FreeMux]
    /\ cur = [c \in CurIds |-> FreeCur]
    /\ readers = [id \in FileIDs |-> NoMux]
    /\ writers = [id \in FileIDs |-> NoMux]
    /\ fs \in FeatureFlags
    /\ req = [r \in ReqIds |-> IdleReq]
    /\ waiters = {}
    /\ LockIdle
    /\ ctxDone = [c \in Ctxs |-> FALSE]
    /\ lastReg = NoReg
    /\ last = NoOp
    /\ logical = [c \in CurIds |-> 0]
    /\ handles = InitHandles(Pattern(MaxSize), << >>)
    /\ ref = Pattern(MaxSize)
    /\ cli = [i \in ClientIds |-> NoClient]

FlagNext ==
    \/ RegisterReader(theFile, "h1", "background")
    \/ RegisterWriter(theFile, "h2", "background")
    \/ \E rq \in FlagRequests : HttpRequest(rq)
    \/ \E r \in ReqIds : ServerStep(ReadSeek(r))
    \/ \E r \in ReqIds : ServerStep(ReadCopy(r))
    \/ \E r \in ReqIds : ServerStep(WriteSeek(r))
    \/ \E r \in ReqIds : ServerStep(WriteCopy(r))
    \/ \E r \in ReqIds : ServerStep(FullWrite(r))
    \/ \E r \in ReqIds : ServerStep(Stat(r))
    \/ \E r \in ReqIds : ServerStep(Sniff(r))
    \/ \E r \in ReqIds : ServerStep(Rewind(r))
    \/ \E r \in ReqIds : ServerStep(SeekEndStep(r))
    \/ \E r \in ReqIds : ServerStep(SeekStartStep(r))
    \/ \E r \in ReqIds : ServerStep(Respond(r))

SpecFlags == FlagInit /\ [][FlagNext]_vars

\* the flag that belongs to a method; the full GET is the one without range
OwnFlag(f, rq) ==
    CASE rq.method = "OPTIONS" -> f.allowStat
      [] rq.method = "GET" /\ rq.xrange = << >> -> f.allowFullGET
      [] rq.method = "PUT" -> f.allowPUT
      [] rq.method = "DELETE" -> f.allowClose
      [] OTHER -> TRUE

(***************************************************************************)
(* C22: an authenticated request on the path of an identifier is answered  *)
(* 405 when its method is none of OPTIONS, GET, PATCH, PUT and DELETE; a   *)
(* PUT while allowPUT is off is answered 403 and writes nothing; a DELETE  *)
(* while allowClose is off is answered 403 and leaves both maps and the    *)
(* handles as they were; and what a request of a verb does depends on no   *)
(* feature flag but the verb's own.                                        *)
(***************************************************************************)
C22_FlagsGateTheirOwnVerb ==
    [][\A r \in ReqIds, rq \in FlagRequests :
          (Starts(r) /\ req'[r].method = rq.method
             /\ req'[r].xrange = rq.xrange) =>
             /\ rq.method \notin {"OPTIONS", "GET", "PATCH", "PUT", "DELETE"} =>
                   /\ req'[r].pc = "done"
                   /\ req'[r].status = StatusMethodNotAllowed
                   /\ UNCHANGED <<handles, readers, writers>>
             /\ (rq.method = "PUT" /\ ~fs.allowPUT) =>
                   /\ req'[r].pc = "done"
                   /\ req'[r].status = StatusForbidden
                   /\ UNCHANGED <<handles, readers, writers>>
             /\ (rq.method = "DELETE" /\ ~fs.allowClose) =>
                   /\ req'[r].pc = "done"
                   /\ req'[r].status = StatusForbidden
                   /\ UNCHANGED <<handles, readers, writers, mux>>
             /\ \A g \in FeatureFlags :
                   OwnFlag(g, rq) = OwnFlag(fs, rq) =>
                      ServeHTTP(W, g, rq) = ServeHTTP(W, fs, rq)]_vars

\* a DELETE has been refused while close is not allowed and every other
\* feature is, with both handles registered and open
C22_Witness ==
    /\ ~fs.allowClose
    /\ fs.allowPUT /\ fs.allowStat /\ fs.allowFullGET
    /\ req[1].pc = "done"
    /\ req[1].method = "DELETE"
    /\ req[1].status = StatusForbidden
    /\ readers[theFile] # NoMux
    /\ writers[theFile] # NoMux
    /\ handles["h1"].closed = 0
    /\ handles["h2"].closed = 0

(***************************************************************************)
(* C24 as stated: every request, whatever its path, method, headers and    *)
(* query, the path that is the URL prefix and nothing more included, is    *)
(* answered with a status; ServeHTTP never ends without a response.        *)
(***************************************************************************)
C24_EveryRequestIsAnswered ==
    \A r \in ReqIds :
       req[r].pc = "done" => (~req[r].aborted /\ req[r].status # 0)

(***************************************************************************)
(* SpecFail: ranged reads, ranged writes and full writes are served while  *)
(* the registrations end with their contexts and the handles are closed    *)
(* under the handlers: from then on every seek, read and write of the      *)
(* handle fails with the error of a closed file, which is none of the      *)
(* mapped errors.                                                          *)
(***************************************************************************)
SpecFail == ExpireInit /\ [][ExpireNext]_vars

\* the handle the handler of request r works on
HandleAt(r) ==
    IF req[r].pc = "put" THEN mux[req[r].m].h ELSE HandleOf(St, req[r].c)

\* the handler of request r makes a step that calls the handle's seek, read
\* or write, and the call fails
HandleFails(r) ==
    /\ req[r].pc \in {"rd_seek", "rd_copy", "wr_seek", "wr_copy", "put"}
    /\ req[r].pc = "put" => req[r].body # << >>
    /\ handles[HandleAt(r)].closed > 0
    /\ req'[r] # req[r]

(***************************************************************************)
(* C23 as stated: when the handle's seek, read or write fails with the     *)
(* error e while a ranged read, a ranged write or a full write is served,  *)
(* the status sent is the mapper's code for e, or 490 with e's text as the *)
(* body when e is not mapped; a request whose handle operation failed is   *)
(* never answered with a success status.                                   *)
(***************************************************************************)
C23_HandleErrorsAreMapped ==
    [][\A r \in ReqIds :
          HandleFails(r) =>
             /\ req'[r].pc = "done"
             /\ req'[r].status \notin {StatusOK, StatusNoContent,
                                       StatusPartialContent}
             /\ req'[r].status = IF ErrClosed \in DOMAIN errToHTTPCode
                                   THEN errToHTTPCode[ErrClosed]
                                   ELSE HTTPCodeUnknownError
             /\ ErrClosed \notin DOMAIN errToHTTPCode => req'[r].msg = ErrClosed]_vars

(***************************************************************************)
(* SpecPut: full writes (PUT, request 1) of up to MaxLen bytes and ranged   *)
(* writes (PATCH, request 2) of one byte are served at the same time on a  *)
(* writer that is registered empty or with content.                        *)
(***************************************************************************)
PutBodies == { [i \in 1..n |-> 9] : n \in 0..MaxLen }

PutInit ==
    /\ ServerInit
    /\ \E n \in {0, 1} :
          handles = InitHandles(Pattern(MaxSize), Pattern(n))
    /\ ref = << >>
    /\ cli = [i \in ClientIds |-> NoClient]

PutRequest(r, rq) ==
    /\ writers[theFile] # NoMux
    /\ Len(handles["h2"].content) + Len(rq.body) <= MaxFile
    /\ ServerStep(Request(r, rq))

PutNext ==
    \/ RegisterWriter(theFile, "h2", "background")
    \/ \E b \in PutBodies : PutRequest(1, securedRequest("PUT", << >>, b))
    \/ \E o \in 0..MaxOff :
          PutRequest(2, securedRequest("PATCH", FormatRange(o, 1), <<1>>))
    \/ ServerStep(WriteSeek(2))
    \/ ServerStep(WriteCopy(2))
    \/ ServerStep(FullWrite(1))
    \/ \E r \in ReqIds : ServerStep(Respond(r))

SpecPut == PutInit /\ [][PutNext]_vars

(***************************************************************************)
(* C25: a PUT to a registered writer whose handle is at the position p     *)
(* when the PUT has the multiplexer's lock writes its whole body at        *)
(* [p, p+len(body)) and is answered 204; the ranged writes served at the   *)
(* same time change neither the handle nor its position while the body is  *)
(* copied; a PUT to a writer registered empty leaves the body as the       *)
(* handle's content.                                                       *)
(***************************************************************************)
C25_PutWritesBodyAtPosition ==
    [][\A r \in ReqIds :
          (req[r].pc = "put" /\ req'[r].pc # "put") =>
             LET h == mux[req[r].m].h
             IN  /\ req'[r].pc = "done"
                 /\ req'[r].status = StatusNoContent
                 /\ handles'[h].content =
                       StoreAt(handles[h].content, handles[h].pos, req[r].body)
                 /\ handles'[h].pos = handles[h].pos + Len(req[r].body)
                 /\ (handles[h].content = << >> /\ handles[h].pos = 0) =>
                       handles'[h].content = req[r].body
                 /\ \A g \in Handles \ {h} : handles'[g] = handles[g]
                 /\ \A o \in ReqIds \ {r} : req'[o] = req[o]]_vars

\* a PUT of MaxLen bytes has been answered 204 on a handle that had content,
\* while a ranged write of the other request was between its seek and its
\* write
C25_Witness ==
    /\ req[1].pc = "done"
    /\ req[1].method = "PUT"
    /\ req[1].status = StatusNoContent
    /\ req[1].n = MaxLen
    /\ req[2].pc = "wr_copy"
    /\ Len(handles["h2"].content) > MaxLen

(***************************************************************************)
(* SpecCodes: the server answers request 1 with an error through           *)
(* writeErrorToResponseWriter, or with a plain status, and the client      *)
(* turns the response into an error with responseCodeToError, expecting    *)
(* one of the three success statuses.  last.err is the error the server    *)
(* wrote; cli[1].n the status expected and cli[1].err the error returned.  *)
(***************************************************************************)
MappedErrors == {ErrUnauthorized, ErrUnknownFile, EOF, ErrUnexpectedEOF,
                 ErrShortBuffer, ErrShortWrite, ErrClosedPipe, ErrNoProgress,
                 ErrUnsupportedOperation}
ServerErrors == MappedErrors \cup {ErrClosed, ErrInvalid, ErrFileIDTaken}
ExpectedStatuses == {StatusOK, StatusNoContent, StatusPartialContent}
PlainStatuses == ExpectedStatuses \cup {StatusBadRequest, StatusForbidden,
                                        StatusMethodNotAllowed,
                                        StatusInternalServerError}

CodesInit ==
    /\ ServerInit
    /\ handles = InitHandles(Pattern(MaxSize), << >>)
    /\ ref = Pattern(MaxSize)
    /\ cli = [i \in ClientIds |-> NoClient]

\* a handler ends with writeErrorToResponseWriter(resp, e)
WriteError(e) ==
    /\ req[1].pc = "idle"
    /\ req' = [req EXCEPT ![1] = Done(writeErrorToResponseWriter(IdleReq, e))]
    /\ last' = [NoOp EXCEPT !.op = "error", !.err = e]
    /\ UNCHANGED <<handles, mux, cur, readers, writers, fs, lockVars, waiters, ctxDone,
                   lastReg, cli, logical, ref>>

\* a handler ends with resp.WriteHeader(code)
WriteStatus(code) ==
    /\ req[1].pc = "idle"
    /\ req' = [req EXCEPT ![1] = Done(WriteHeader(IdleReq, code))]
    /\ last' = [NoOp EXCEPT !.op = "status"]
    /\ UNCHANGED <<handles, mux, cur, readers, writers, fs, lockVars, waiters, ctxDone,
                   lastReg, cli, logical, ref>>

\* the client: err = responseCodeToError(resp, expected)
DecodeStatus(expected) ==
    /\ req[1].pc = "done"
    /\ cli[1].pc = "ready"
    /\ cli' = [cli EXCEPT ![1].pc = "decoded", ![1].n = expected,
                          ![1].err = responseCodeToError(req[1].status, expected)]
    /\ UNCHANGED <<handles, mux, cur, readers, writers, fs, lockVars, req, waiters,
                   ctxDone, lastReg, last, logical, ref>>

\* the call has returned: the next request
NextCall ==
    /\ cli[1].pc = "decoded"
    /\ cli' = [cli EXCEPT ![1].pc = "ready"]
    /\ req' = [req EXCEPT ![1] = IdleReq]
    /\ UNCHANGED <<handles, mux, cur, readers, writers, fs, lockVars, waiters, ctxDone,
                   lastReg, last, logical, ref>>

CodesNext ==
    \/ \E e \in ServerErrors : WriteError(e)
    \/ \E code \in PlainStatuses : WriteStatus(code)
    \/ \E expected \in ExpectedStatuses : DecodeStatus(expected)
    \/ NextCall

SpecCodes == CodesInit /\ [][CodesNext]_vars

(***************************************************************************)
(* C26: errToHTTPCode and HTTPCodeToErr are inverses of each other on the  *)
(* nine mapped errors, whose codes differ pairwise; a mapped error the     *)
(* server writes comes back from the client's responseCodeToError as the   *)
(* same error; and responseCodeToError returns nil exactly when the status *)
(* is the success status expected.                                         *)
(***************************************************************************)
C26_CodeMapsAreInverse ==
    /\ DOMAIN errToHTTPCode = MappedErrors
    /\ \A e \in DOMAIN errToHTTPCode :
          /\ errToHTTPCode[e] \in DOMAIN HTTPCodeToErr
          /\ HTTPCodeToErr[errToHTTPCode[e]] = e
    /\ \A code \in DOMAIN HTTPCodeToErr :
          /\ HTTPCodeToErr[code] \in DOMAIN errToHTTPCode
          /\ errToHTTPCode[HTTPCodeToErr[code]] = code
    /\ \A e1 \in MappedErrors, e2 \in MappedErrors :
          e1 # e2 => errToHTTPCode[e1] # errToHTTPCode[e2]
    /\ cli[1].pc = "decoded" =>
          /\ (last.op = "error" /\ last.err \in MappedErrors) =>
                cli[1].err = last.err
          /\ (last.op = "error" /\ last.err \notin MappedErrors) =>
                /\ req[1].status = HTTPCodeUnknownError
                /\ cli[1].err \notin MappedErrors \cup {NoErr}
          /\ (cli[1].err = NoErr) <=> (req[1].status = cli[1].n)

\* io.ErrShortWrite went from the server to the client and came out as
\* io.ErrShortWrite
C26_Witness ==
    /\ cli[1].pc = "decoded"
    /\ last.op = "error"
    /\ last.err = ErrShortWrite
    /\ req[1].status = HTTPCodeShortWrite
    /\ cli[1].err = ErrShortWrite

(***************************************************************************)
(* SpecCursor: two cursors of one multiplexer seek with every whence and   *)
(* to offsets a file refuses, read and write, each call atomic under the   *)
(* multiplexer's mutex, and the owner of the file may close it under them, *)
(* after which every seek, read and write of the file fails.  last is the  *)
(* call made last: the cursor, the arguments (off and plen are the offset  *)
(* and the whence of a Seek) and what it returned.                         *)
(***************************************************************************)
CursorInit == MuxInit

CursorNew ==
    /\ cur[2].parent = NoMux
    /\ SetSt(mux_New(St, 1, FreshCur(St)))
    /\ last' = NoOp
    /\ UNCHANGED <<logical, ref>>

CursorSeek(c, offset, whence) ==
    /\ cur[c].parent # NoMux
    /\ LET r == cursor_Seek(St, c, offset, whence)
       IN  /\ r.n <= MaxSize + 1
           /\ SetSt(r.s)
           /\ last' = [NoOp EXCEPT !.op = "seek", !.c = c, !.off = offset,
                                   !.plen = whence, !.n = r.n, !.err = r.err]
    /\ UNCHANGED <<logical, ref>>

CursorRead(c, plen, k) ==
    /\ cur[c].parent # NoMux
    /\ mux[cur[c].parent].kind = "r"
    /\ LET r == readSeeker_Read(St, c, plen, k)
       IN  /\ SetSt(r.s)
           /\ last' = [NoOp EXCEPT !.op = "read", !.c = c, !.plen = plen,
                                   !.n = r.n, !.out = r.out, !.err = r.err,
                                   !.sought = r.sought]
    /\ UNCHANGED <<logical, ref>>

CursorWrite(c, p) ==
    /\ cur[c].parent # NoMux
    /\ mux[cur[c].parent].kind = "w"
    /\ Max(cur[c].offset, handles[HandleOf(St, c)].pos) + Len(p) <= MaxSize
    /\ LET r == writeSeeker_Write(St, c, p)
       IN  /\ SetSt(r.s)
           /\ last' = [NoOp EXCEPT !.op = "write", !.c = c, !.arg = p,
                                   !.n = r.n, !.err = r.err,
                                   !.sought = r.sought]
    /\ UNCHANGED <<logical, ref>>

\* the owner of the file closes it
CursorClose ==
    /\ handles["h1"].closed = 0
    /\ handles' = [handles EXCEPT !["h1"] = h_Close(handles["h1"])]
    /\ last' = [NoOp EXCEPT !.op = "close"]
    /\ UNCHANGED <<mux, cur, logical, ref>>

CursorNext ==
    \/ CursorNew /\ UNCHANGED srvVars
    \/ \E c \in 1..2, offset \in (0 - 1)..MaxOff,
          whence \in {SeekStart, SeekCurrent, SeekEnd} :
          CursorSeek(c, offset, whence) /\ UNCHANGED srvVars
    \/ \E c \in 1..2, plen \in 1..MaxLen :
          CursorRead(c, plen, plen) /\ UNCHANGED srvVars
    \/ \E c \in 1..2 : CursorWrite(c, <<9>>) /\ UNCHANGED srvVars
    \/ CursorClose /\ UNCHANGED srvVars

SpecCursor == CursorInit /\ [][CursorNext]_vars

\* the multiplexer's last-active cursor is not the cursor c that calls
Repositions(c) == mux[cur[c].parent].lastChange # c

\* cursor c calls Read or Write and the repositioning seek fails
SeekFails(c) == Repositions(c) /\ handles[HandleOf(St, c)].closed > 0

\* where the file is when the transfer of a Read or Write of cursor c begins
TransferStart(c) ==
    IF Repositions(c) THEN cur[c].offset ELSE handles[HandleOf(St, c)].pos

\* the transfer of the Read or Write just made by cursor c began at start
TransferredAt(c, start) ==
    LET h == HandleOf(St, c)
    IN  /\ handles'[h].pos = start + last'.n
        /\ last'.op = "read" =>
              /\ start + last'.n <= Max(start, Len(handles[h].content))
              /\ last'.out = SubSeq(handles[h].content, start + 1,
                                    start + last'.n)
        /\ (last'.op = "write" /\ last'.err = NoErr) =>
              handles'[h].content = StoreAt(handles[h].content, start, last'.arg)

(***************************************************************************)
(* C27 as stated: whenever the multiplexer's lock is free, the position of *)
(* the underlying handle is the logical offset of the cursor recorded as   *)
(* last active, whatever cursor calls and request handlers, the full-body  *)
(* PUT included, have run.                                                 *)
(***************************************************************************)
C27_PositionIsLastActiveOffset ==
    \A m \in MuxIds :
       (mux[m].kind # "free" /\ mux[m].lastChange # NoCursor) =>
          handles[mux[m].h].pos = cur[mux[m].lastChange].offset

C29_FailedSeekChangesNothing ==
    [][(last'.op \in {"read", "write"} /\ SeekFails(last'.c)) =>
          /\ last'.n = 0
          /\ last'.err = ErrClosed
          /\ handles' = handles
          /\ mux' = mux
          /\ cur'[last'.c].offset = cur[last'.c].offset]_vars

(***************************************************************************)
(* C30 as stated: Seek(d, SeekCurrent) of a cursor sets the cursor's       *)
(* offset to its own offset plus d and returns it, whatever the other      *)
(* cursors of the multiplexer did since the cursor's last call.            *)
(***************************************************************************)
C30_SeekCurrentIsRelativeToOwnOffset ==
    [][(/\ last'.op = "seek"
        /\ last'.plen = SeekCurrent
        /\ handles[HandleOf(St, last'.c)].closed = 0
        /\ cur[last'.c].offset + last'.off >= 0) =>
          /\ last'.err = NoErr
          /\ cur'[last'.c].offset = cur[last'.c].offset + last'.off
          /\ last'.n = cur'[last'.c].offset]_vars

(***************************************************************************)
(* C31: a registration that succeeds leaves the file it was given at       *)
(* position 0, under a fresh multiplexer that has no last-active cursor    *)
(* and no cursor at all, and starts the waiter of the registration; a      *)
(* registration whose seek to the start fails (the identifier is free for  *)
(* the kind, the file is closed) returns the seek's error, leaves the      *)
(* identifier unregistered for the kind and starts no waiter.  Checked on  *)
(* SpecReg, where the files start at their end and a DELETE may have       *)
(* closed them.                                                            *)
(***************************************************************************)
RegisteredAs(kind, fileID) ==
    IF kind = "r" THEN readers[fileID] ELSE writers[fileID]

C31_RegistrationStartsAtZeroOrFails ==
    [][lastReg'.calls # lastReg.calls =>
         LET kind == lastReg'.kind
             id == lastReg'.fileID
             h == lastReg'.h
             before == RegisteredAs(kind, id)
             after == IF kind = "r" THEN readers'[id] ELSE writers'[id]
         IN  /\ lastReg'.err = NoErr =>
                   /\ after # NoMux
                   /\ mux'[after].h = h
                   /\ mux'[after].kind = kind
                   /\ mux'[after].lastChange = NoCursor
                   /\ \A c \in CurIds : cur'[c].parent # after
                   /\ handles'[h].pos = 0
                   /\ \E wt \in waiters' \ waiters :
                         wt.kind = kind /\ wt.fileID = id
             /\ (before = NoMux /\ handles[h].closed > 0) =>
                   /\ lastReg'.err = ErrClosed
                   /\ after = NoMux
                   /\ handles' = handles
                   /\ mux' = mux
                   /\ waiters' = waiters
             /\ lastReg'.err \notin {NoErr, ErrFileIDTaken} =>
                   (before = NoMux /\ handles[h].closed > 0)]_vars

\* the registration of a closed file as the reader has just failed with the
\* seek's error: the identifier has no reader and no waiter for one
C31_Witness ==
    /\ lastReg.kind = "r"
    /\ lastReg.err = ErrClosed
    /\ handles[lastReg.h].closed > 0
    /\ readers[theFile] = NoMux
    /\ \A wt \in waiters : wt.kind # "r"

(***************************************************************************)
(* SpecLock: the goroutines of the server followed lock by lock.  The file *)
(* h1 is registered as the reader of the identifier under the context      *)
(* ctx1.  Two requests arrive, each with a method of its own choice; a     *)
(* registration of a writer, or of a second reader, is made under ctx2;    *)
(* the contexts end and the waiters of the registrations run.  A step is   *)
(* the acquisition or the release of a lock, a lookup in the maps, or one  *)
(* call on a cursor or on a file, which io records.  A ranged request is   *)
(* for one byte at offset 0, a body is one byte.                           *)
(***************************************************************************)
HoldsFs(t) == locks.fs.w = t \/ t \in locks.fs.r
HoldsMux(t, m) == locks.mux[m] = t

Go(t, pc, after) == [thr EXCEPT ![t].pc = pc, ![t].after = after]

\* what a step that is not a call on a file leaves alone
NoCall == UNCHANGED <<handles, mux, cur, readers, writers, io>>

\* what no step of SpecLock changes
LockFrame == UNCHANGED <<req, fs, lastReg, cli, last, logical, ref>>

\* the call made last: ops on the file h by the goroutine t
Called(ops, h, t) == [ops |-> ops, h |-> h, by |-> t, calls |-> 1 - io.calls]

\* the cursor a request is given by New
CursorOf(t) == IF t = "q1" THEN 1 ELSE 2

\* fs.mu.Lock()
fsLock(t) ==
    /\ thr[t].pc = "lock"
    /\ locks.fs.w = NoThread
    /\ locks.fs.r = {}
    /\ locks' = [locks EXCEPT !.fs.w = t]
    /\ thr' = Go(t, thr[t].after, "done")
    /\ UNCHANGED <<waiters, ctxDone>>
    /\ NoCall

\* fs.mu.Unlock()
fsUnlock(t) ==
    /\ thr[t].pc = "fs_unlock"
    /\ locks' = [locks EXCEPT !.fs.w = NoThread]
    /\ thr' = IF thr[t].after = "idle" THEN [thr EXCEPT ![t] = IdleThread]
              ELSE Go(t, thr[t].after, "done")
    /\ UNCHANGED <<waiters, ctxDone>>
    /\ NoCall

\* fs.mu.RLock()
fsRLock(t) ==
    /\ thr[t].pc = "rlock"
    /\ locks.fs.w = NoThread
    /\ locks' = [locks EXCEPT !.fs.r = locks.fs.r \cup {t}]
    /\ thr' = Go(t, "lookup", "done")
    /\ UNCHANGED <<waiters, ctxDone>>
    /\ NoCall

\* where a handler goes on after its lookup
AfterLookup(t) ==
    IF thr[t].h = NoHandle THEN "done"
    ELSE CASE thr[t].method = "GET" -> "new"
           [] thr[t].method = "PATCH" -> "new"
           [] thr[t].method = "PUT" -> "lock_mux"
           [] OTHER -> "stat"

\* a handler that goes on without fs.mu.RUnlock()
fsRUnlock_Forgotten(t) ==
    /\ thr[t].pc = "runlock"
    /\ locks' = locks
    /\ thr' = Go(t, AfterLookup(t), "put")
    /\ UNCHANGED <<waiters, ctxDone>>
    /\ NoCall

\* fs.mu.RUnlock(); the handler that found nothing answers 404 and returns
fsRUnlock(t) ==
    /\ thr[t].pc = "runlock"
    /\ locks' = [locks EXCEPT !.fs.r = locks.fs.r \ {t}]
    /\ thr' = Go(t, AfterLookup(t), "put")
    /\ UNCHANGED <<waiters, ctxDone>>
    /\ NoCall

\* parent.mu.Lock() of a cursor's method, writer.mu.Lock() of the full write
muxLock(t) ==
    /\ thr[t].pc = "lock_mux"
    /\ locks.mux[thr[t].m] = NoThread
    /\ locks' = [locks EXCEPT !.mux[thr[t].m] = t]
    /\ thr' = Go(t, thr[t].after, "done")
    /\ UNCHANGED <<waiters, ctxDone>>
    /\ NoCall

\* the deferred parent.mu.Unlock() / writer.mu.Unlock()
muxUnlock(t) ==
    /\ thr[t].pc = "unlock_mux"
    /\ locks' = [locks EXCEPT !.mux[thr[t].m] = NoThread]
    /\ thr' = IF thr[t].after = "done" THEN Go(t, "done", "done")
              ELSE Go(t, "lock_mux", thr[t].after)
    /\ UNCHANGED <<waiters, ctxDone>>
    /\ NoCall

\* ServeHTTP up to the first lock of the handler; the flags allow the method
LockStart(t, method) ==
    /\ thr[t].pc = "idle"
    /\ thr' = [thr EXCEPT ![t] = [IdleThread EXCEPT
                  !.method = method,
                  !.pc = IF method = "DELETE" THEN "lock" ELSE "rlock",
                  !.after = "close_r"]]
    /\ UNCHANGED <<locks, waiters, ctxDone>>
    /\ NoCall

\* fs.readers[fileID] / fs.writers[fileID]; statFile takes the reader's
\* file, or the writer's when there is no reader
LockLookup(t) ==
    /\ thr[t].pc = "lookup"
    /\ LET m == CASE thr[t].method = "GET" -> readers[theFile]
                  [] thr[t].method = "OPTIONS" ->
                        IF readers[theFile] # NoMux THEN readers[theFile]
                        ELSE writers[theFile]
                  [] OTHER -> writers[theFile]
       IN  thr' = [thr EXCEPT ![t].pc = "runlock", ![t].m = m,
                              ![t].h = IF m = NoMux THEN NoHandle ELSE mux[m].h]
    /\ UNCHANGED <<locks, waiters, ctxDone>>
    /\ NoCall

\* reader.New() / writer.New()
LockNew(t) ==
    /\ thr[t].pc = "new"
    /\ SetSt(mux_New(St, thr[t].m, CursorOf(t)))
    /\ thr' = [thr EXCEPT ![t].pc = "lock_mux", ![t].after = "seek",
                          ![t].c = CursorOf(t)]
    /\ UNCHANGED <<readers, writers, io, locks, waiters, ctxDone>>

\* rdr.Seek(offset, io.SeekStart) / wrtr.Seek(offset, io.SeekStart), inside
LockSeek(t) ==
    /\ thr[t].pc = "seek"
    /\ LET r == cursor_Seek(St, thr[t].c, 0, SeekStart)
       IN  /\ SetSt(r.s)
           /\ thr' = Go(t, "unlock_mux",
                        IF r.err # NoErr THEN "done"
                        ELSE IF thr[t].method = "GET" THEN "read" ELSE "write")
    /\ io' = Called({"seek"}, thr[t].h, t)
    /\ UNCHANGED <<readers, writers, locks, waiters, ctxDone>>

\* the Read of io.Copy(resp, io.LimitReader(rdr, 1)), inside
LockRead(t) ==
    /\ thr[t].pc = "read"
    /\ LET r == readSeeker_Read(St, thr[t].c, 1, 1)
       IN  /\ SetSt(r.s)
           /\ io' = Called(IF r.sought /\ handles[thr[t].h].closed > 0
                             THEN {"seek"}
                           ELSE IF r.sought THEN {"seek", "read"}
                           ELSE {"read"}, thr[t].h, t)
    /\ thr' = Go(t, "unlock_mux", "done")
    /\ UNCHANGED <<readers, writers, locks, waiters, ctxDone>>

\* the Write of io.Copy(wrtr, req.Body), inside
LockWrite(t) ==
    /\ thr[t].pc = "write"
    /\ LET r == writeSeeker_Write(St, thr[t].c, <<9>>)
       IN  /\ SetSt(r.s)
           /\ io' = Called(IF r.sought /\ handles[thr[t].h].closed > 0
                             THEN {"seek"}
                           ELSE IF r.sought THEN {"seek", "write"}
                           ELSE {"write"}, thr[t].h, t)
    /\ thr' = Go(t, "unlock_mux", "done")
    /\ UNCHANGED <<readers, writers, locks, waiters, ctxDone>>

\* handleFullWriteFile: io.Copy(writer.wrtr, req.Body)
LockFullWrite(t) ==
    /\ thr[t].pc = "put"
    /\ handles' = [handles EXCEPT ![thr[t].h] = h_Write(@, <<9>>).hd]
    /\ io' = Called({"write"}, thr[t].h, t)
    /\ thr' = Go(t, "unlock_mux", "done")
    /\ UNCHANGED <<mux, cur, readers, writers, locks, waiters, ctxDone>>

\* statFile: file.Stat()
LockStat(t) ==
    /\ thr[t].pc = "stat"
    /\ io' = Called({"stat"}, thr[t].h, t)
    /\ thr' = Go(t, "done", "done")
    /\ UNCHANGED <<handles, mux, cur, readers, writers, locks, waiters, ctxDone>>

\* the file that a step from w to w1 has closed, or none
ClosedBy(w, w1) ==
    IF \E h \in Handles : w1.handles[h].closed # w.handles[h].closed
      THEN CHOOSE h \in Handles : w1.handles[h].closed # w.handles[h].closed
      ELSE NoHandle

\* a close of the registry: closeReader or closeWriter, as res tells
LockClosed(t, res) ==
    /\ SetW(res.w)
    /\ io' = IF ClosedBy(W, res.w) = NoHandle THEN io
             ELSE Called({"close"}, ClosedBy(W, res.w), t)

\* handleCloseFile: fs.closeReader(fileID)
LockCloseReader(t) ==
    /\ thr[t].pc = "close_r"
    /\ LockClosed(t, closeReader(W, fs, theFile))
    /\ thr' = Go(t, "close_w", "done")
    /\ UNCHANGED <<locks, waiters, ctxDone>>

\* handleCloseFile: fs.closeWriter(fileID)
LockCloseWriter(t) ==
    /\ thr[t].pc = "close_w"
    /\ LockClosed(t, closeWriter(W, fs, theFile))
    /\ thr' = Go(t, "fs_unlock", "done")
    /\ UNCHANGED <<locks, waiters, ctxDone>>

\* ServeFileReader / ServeFileWriter is called with the file h and ctx2
LockRegister(kind, h) ==
    /\ thr["reg"].pc = "idle"
    /\ mux[2].kind = "free"
    /\ thr' = [thr EXCEPT !["reg"] = [IdleThread EXCEPT
                  !.pc = "lock", !.after = "serve", !.kind = kind, !.h = h]]
    /\ UNCHANGED <<locks, waiters, ctxDone>>
    /\ NoCall

\* ServeFileReader / ServeFileWriter between fs.mu.Lock() and the deferred
\* fs.mu.Unlock(): the check, the seek to the start, the map, the goroutine
LockServe ==
    /\ thr["reg"].pc = "serve"
    /\ LET kind == thr["reg"].kind
           h == thr["reg"].h
           taken == IF kind = "r" THEN readers[theFile] # NoMux
                                  ELSE writers[theFile] # NoMux
           res == IF kind = "r" THEN ServeFileReader(W, theFile, h)
                                ELSE ServeFileWriter(W, theFile, h)
       IN  /\ SetW(res.w)
           /\ io' = IF taken THEN io ELSE Called({"seek"}, h, "reg")
           /\ waiters' = IF res.err = NoErr
                           THEN waiters \cup {[kind |-> kind, fileID |-> theFile,
                                               ctx |-> "ctx2"]}
                           ELSE waiters
    /\ thr' = Go("reg", "fs_unlock", "done")
    /\ UNCHANGED <<locks, ctxDone>>

\* <-ctx.Done() returns in the goroutine of a registration
LockWake(wt) ==
    /\ thr["wt"].pc = "idle"
    /\ wt \in waiters
    /\ ctxDone[wt.ctx]
    /\ waiters' = waiters \ {wt}
    /\ thr' = [thr EXCEPT !["wt"] = [IdleThread EXCEPT
                  !.pc = "lock", !.after = "expire", !.kind = wt.kind]]
    /\ UNCHANGED <<locks, ctxDone>>
    /\ NoCall

\* the goroutine of a registration: fs.closeReader / fs.closeWriter
LockExpire ==
    /\ thr["wt"].pc = "expire"
    /\ LockClosed("wt", waiter_Run(W, fs, [kind |-> thr["wt"].kind,
                                            fileID |-> theFile]))
    /\ thr' = Go("wt", "fs_unlock", "idle")
    /\ UNCHANGED <<locks, waiters, ctxDone>>

\* a context ends
LockCancel(ctx) ==
    /\ ~ctxDone[ctx]
    /\ ctxDone' = [ctxDone EXCEPT ![ctx] = TRUE]
    /\ UNCHANGED <<locks, thr, waiters>>
    /\ NoCall

LockInit ==
    /\ handles = InitHandles(Pattern(MaxSize), << >>)
    /\ mux = [m \in MuxIds |->
                IF m = 1 THEN [kind |-> "r", h |-> "h1", lastChange |-> NoCursor]
                ELSE FreeMux]
    /\ cur = [c \in CurIds |-> FreeCur]
    /\ readers = [id \in FileIDs |-> 1]
    /\ writers = [id \in FileIDs |-> NoMux]
    /\ \E b \in BOOLEAN :
          fs = [DefaultFlags EXCEPT !.closeReaders = b, !.closeWriters = b]
    /\ req = [r \in ReqIds |-> IdleReq]
    /\ waiters = {[kind |-> "r", fileID |-> theFile, ctx |-> "ctx1"]}
    /\ LockIdle
    /\ ctxDone = [c \in Ctxs |-> FALSE]
    /\ lastReg = NoReg
    /\ last = NoOp
    /\ logical = [c \in CurIds |-> 0]
    /\ ref = Pattern(MaxSize)
    /\ cli = [i \in ClientIds |-> NoClient]

LockNext ==
    \/ \E method \in {"GET", "OPTIONS", "PATCH"} :
          LockStart("q1", method) /\ LockFrame
    \/ \E method \in {"PATCH", "PUT", "DELETE"} :
          LockStart("q2", method) /\ LockFrame
    \/ \E t \in {"q1", "q2"} : fsRLock(t) /\ LockFrame
    \/ \E t \in {"q1", "q2"} : LockLookup(t) /\ LockFrame
    \/ \E t \in {"q1", "q2"} : fsRUnlock(t) /\ LockFrame
    \/ \E t \in {"q1", "q2"} : LockNew(t) /\ LockFrame
    \/ \E t \in {"q1", "q2"} : muxLock(t) /\ LockFrame
    \/ \E t \in {"q1", "q2"} : LockSeek(t) /\ LockFrame
    \/ LockRead("q1") /\ LockFrame
    \/ \E t \in {"q1", "q2"} : LockWrite(t) /\ LockFrame
    \/ LockFullWrite("q2") /\ LockFrame
    \/ \E t \in {"q1", "q2"} : muxUnlock(t) /\ LockFrame
    \/ LockStat("q1") /\ LockFrame
    \/ \E t \in {"q2", "reg", "wt"} : fsLock(t) /\ LockFrame
    \/ LockCloseReader("q2") /\ LockFrame
    \/ LockCloseWriter("q2") /\ LockFrame
    \/ \E t \in {"q2", "reg", "wt"} : fsUnlock(t) /\ LockFrame
    \/ \E kind \in {"r", "w"}, h \in Handles : LockRegister(kind, h) /\ LockFrame
    \/ LockServe /\ LockFrame
    \/ \E wt \in waiters : LockWake(wt) /\ LockFrame
    \/ LockExpire /\ LockFrame
    \/ \E ctx \in {"ctx1", "ctx2"} : LockCancel(ctx) /\ LockFrame

SpecLock == LockInit /\ [][LockNext]_vars

\* the goroutine t has just made a call on a file
Calls(t) == io'.calls # io.calls /\ io'.by = t

\* the call just made seeks, reads or writes
Transfers == io'.ops \cap {"seek", "read", "write"} # {}

(***************************************************************************)
(* C32 as stated: no call on a file (seek, read, write, stat, close) is    *)
(* made by a goroutine that holds FileServer.mu, except the seek to the    *)
(* start of a registration; and every seek, read and write that is not     *)
(* that seek is made by a goroutine that holds the mutex of a multiplexer  *)
(* of the file.                                                            *)
(***************************************************************************)
C32_NoFileCallUnderRegistryLock ==
    [][\A t \in Threads : Calls(t) =>
          /\ HoldsFs(t) => (t = "reg" /\ io'.ops = {"seek"})
          /\ (Transfers /\ t # "reg") =>
                \E m \in MuxIds : mux[m].h = io'.h /\ HoldsMux(t, m)]_vars

(***************************************************************************)
(* C33 as stated: once the registry has called Close on a file, no request *)
(* seeks, reads or writes the file, the requests that looked the file up   *)
(* before the Close included.                                              *)
(***************************************************************************)
C33_NoTransferAfterClose ==
    [][\A t \in {"q1", "q2"} : (Calls(t) /\ Transfers) =>
          handles[io'.h].closed = 0]_vars

\* the goroutine t waits for a lock that is taken
Blocked(t) ==
    \/ thr[t].pc = "lock" /\ (locks.fs.w # NoThread \/ locks.fs.r # {})
    \/ thr[t].pc = "rlock" /\ locks.fs.w # NoThread
    \/ thr[t].pc = "lock_mux" /\ locks.mux[thr[t].m] # NoThread

\* the goroutines that hold a lock t waits for
Blockers(t) ==
    CASE thr[t].pc = "lock" -> ({locks.fs.w} \cup locks.fs.r) \ {NoThread}
      [] thr[t].pc = "rlock" -> {locks.fs.w} \ {NoThread}
      [] thr[t].pc = "lock_mux" -> {locks.mux[thr[t].m]} \ {NoThread}
      [] OTHER -> {}

(***************************************************************************)
(* C34: no goroutine holds FileServer.mu and the mutex of a multiplexer at *)
(* once, and none holds a lock when it asks for one; a goroutine that has  *)
(* returned holds no lock, whatever path it took; and whenever a goroutine *)
(* waits for a lock, every goroutine that holds it is not waiting itself   *)
(* and has not returned: no set of goroutines waits for each other.        *)
(***************************************************************************)
C34_LocksAreNeverNestedAndAlwaysReleased ==
    \A t \in Threads :
       /\ ~(HoldsFs(t) /\ \E m \in MuxIds : HoldsMux(t, m))
       /\ thr[t].pc \in {"lock", "rlock", "lock_mux", "idle", "done"} =>
             (~HoldsFs(t) /\ \A m \in MuxIds : ~HoldsMux(t, m))
       /\ Blocked(t) =>
             /\ Blockers(t) # {}
             /\ \A u \in Blockers(t) :
                   /\ u # t
                   /\ ~Blocked(u)
                   /\ thr[u].pc \notin {"idle", "done"}

\* a request waits for the mutex of the writer's multiplexer, which the
\* other request holds, while the waiter of a registration asks for
\* FileServer.mu
C34_Witness ==
    /\ thr["q1"].pc = "lock_mux"
    /\ locks.mux[thr["q1"].m] = "q2"
    /\ thr["wt"].pc = "lock"

(***************************************************************************)
(* SpecShared: the file h1 is registered as the reader and as the writer   *)
(* of the identifier.  Ranged reads of the first byte (slot 1) and ranged  *)
(* writes of one byte at the offsets after it (slot 2) are served at the   *)
(* same time, each cursor call one step under the mutex of its own         *)
(* multiplexer.  ref is the file as positioned writes leave it.            *)
(***************************************************************************)
SharedInit ==
    /\ ServerInit
    /\ handles = InitHandles(Pattern(MaxSize), << >>)
    /\ ref = Pattern(MaxSize)
    /\ cli = [i \in ClientIds |-> NoClient]

SharedRead ==
    /\ readers[theFile] # NoMux
    /\ writers[theFile] # NoMux
    /\ ServerStep(Request(1, rangedRequest("GET", 0, 1, << >>)))

SharedWrite(o) ==
    /\ readers[theFile] # NoMux
    /\ writers[theFile] # NoMux
    /\ Request(2, rangedRequest("PATCH", o, 1, <<9>>))
    /\ ref' = StoreAt(ref, o, <<9>>)
    /\ UNCHANGED <<fs, lockVars, waiters, ctxDone, lastReg, cli, last, logical>>

SharedNext ==
    \/ RegisterReader(theFile, "h1", "background")
    \/ RegisterWriter(theFile, "h1", "background")
    \/ SharedRead
    \/ \E o \in 1..MaxOff : SharedWrite(o)
    \/ ServerStep(ReadSeek(1))
    \/ ServerStep(ReadCopy(1))
    \/ ServerStep(WriteSeek(2))
    \/ ServerStep(WriteCopy(2))
    \/ ServerStep(Respond(1))
    \/ ServerStep(Respond(2))

SpecShared == SharedInit /\ [][SharedNext]_vars

(***************************************************************************)
(* C35 as stated: with one file registered as the reader and as the writer *)
(* of an identifier, a ranged read of a byte that no write touches is      *)
(* answered with that byte of the file, however the ranged writes to the   *)
(* other offsets are interleaved with it.                                  *)
(***************************************************************************)
C35_ReadOfUntouchedRangeIsExact ==
    (req[1].pc = "done" /\ req[1].status = StatusPartialContent) =>
        /\ ref[1] = Pattern(MaxSize)[1]
        /\ req[1].out = <<ref[1]>>

\* the Read call of client 1 returns with a 206 response in hand
ReadReturns206 ==
    /\ cli[1].kind = "reader"
    /\ cli[1].pc = "wait"
    /\ cli'[1].pc # "wait"
    /\ req[1].status = StatusPartialContent
    /\ ~req[1].aborted

(***************************************************************************)
(* C36 as stated: a read into a buffer of L bytes that finds a response    *)
(* body of n < L bytes returns (n, io.EOF).                                *)
(***************************************************************************)
C36_ShortBodyIsEndOfStream ==
    [][(ReadReturns206 /\ Len(req[1].out) < cli[1].blen) =>
          /\ cli'[1].n = Len(req[1].out)
          /\ cli'[1].err = EOF]_vars

(***************************************************************************)
(* C36 amended: a read that finds an empty response body returns           *)
(* (0, io.EOF); a read that finds a body of one byte or more returns the   *)
(* bytes the body delivers, at least one and at most the buffer's length,  *)
(* with a nil error, also when they are fewer than the buffer's length.    *)
(***************************************************************************)
C36_OnlyEmptyBodyIsEndOfStream ==
    [][ReadReturns206 =>
          LET body == req[1].out
              n == cli'[1].n
          IN  /\ body = << >> => (n = 0 /\ cli'[1].err = EOF)
              /\ body # << >> =>
                    /\ 1 <= n
                    /\ n <= Min(cli[1].blen, Len(body))
                    /\ cli'[1].err = NoErr
                    /\ cli'[1].got = cli[1].got \o SubSeq(body, 1, n)
                    /\ cli'[1].offset = cli[1].offset + n]_vars

\* a Reader with a buffer of two bytes has read a file of three bytes to its
\* end: its last call got one byte and no error
C36_Witness ==
    /\ cli[1].kind = "reader"
    /\ cli[1].pc = "ready"
    /\ cli[1].blen = 2
    /\ Len(handles["h1"].content) = 3
    /\ cli[1].offset = 3
    /\ cli[1].n = 1
    /\ cli[1].err = NoErr

(***************************************************************************)
(* SpecBadRange: ranged GETs and PATCHes with X-Range headers of every     *)
(* shape, against an identifier whose reader (h1) and writer (h2) are or   *)
(* are not registered yet, and a Reader and a Writer that are called with  *)
(* an empty buffer.  Raw requests and the Reader use slot 1, the Writer    *)
(* slot 2.                                                                 *)
(***************************************************************************)
RangeHeaders ==
    { FormatRange(a, b) : a \in (0 - 1)..1, b \in (0 - 1)..1 }
    \cup { <<"x">>, <<"0">>, <<"0", "-">>, <<"-", "1">>, <<"0", "x", "1">>,
           <<"0", "-", "1", "x">>, <<"+", "0", "-", "1">> }

\* the header is an offset >= 0, a dash, a length >= 1, and nothing else
TwoIntegers(x) == \E a \in 0..9, b \in 1..9 : x = FormatRange(a, b)

BadRangeInit ==
    /\ ServerInit
    /\ handles = InitHandles(Pattern(MaxSize), << >>)
    /\ ref = Pattern(MaxSize)
    /\ cli = [i \in ClientIds |->
                IF i = 1 THEN NewReader(theFile, 0)
                ELSE IF i = 2 THEN NewWriter(theFile, << >>)
                ELSE NoClient]

\* a GET or a PATCH with the X-Range header x; an empty header on a GET asks
\* for the whole file
RangedRequest(method, x) ==
    /\ cli[1].pc # "wait"
    /\ method = "GET" => x # << >>
    /\ ServerStep(Request(1, securedRequest(method, x,
                    IF method = "PATCH" THEN <<1>> ELSE << >>)))

\* Reader.Read(buf) with len(buf) = 0 sends its request
EmptyReadCall == ReadCall(1)

\* Reader.Read(buf) with len(buf) = 0 returns: resp.Body.Read delivers nothing
EmptyReadReturn ==
    /\ cli[1].pc = "wait"
    /\ req[1].pc = "done"
    /\ cli' = [cli EXCEPT ![1] = Reader_Read(cli[1], req[1], 0)]
    /\ req' = [req EXCEPT ![1] = IdleReq]
    /\ UNCHANGED <<handles, mux, cur, readers, writers, fs, lockVars, waiters,
                   ctxDone, lastReg, last, logical, ref>>

\* Writer.Write(buf) with len(buf) = 0 sends its request
EmptyWriteCall ==
    /\ cli[2].pc = "ready"
    /\ Request(2, clientRequest(cli[2], "PATCH", 0, << >>))
    /\ cli' = [cli EXCEPT ![2].pc = "wait", ![2].blen = 0,
                          ![2].calls = Min(cli[2].calls + 1, 2)]
    /\ UNCHANGED <<fs, lockVars, waiters, ctxDone, lastReg, last, logical, ref>>

BadRangeNext ==
    \/ RegisterReader(theFile, "h1", "background")
    \/ RegisterWriter(theFile, "h2", "background")
    \/ \E x \in RangeHeaders \cup {<< >>} : RangedRequest("GET", x)
    \/ \E x \in RangeHeaders \cup {<< >>} : RangedRequest("PATCH", x)
    \/ ServerStep(ReadSeek(1))
    \/ ServerStep(ReadCopy(1))
    \/ ServerStep(WriteSeek(1))
    \/ ServerStep(WriteCopy(1))
    \/ cli[1].pc # "wait" /\ ServerStep(Respond(1))
    \/ EmptyReadCall
    \/ EmptyReadReturn
    \/ EmptyWriteCall
    \/ WriteReturn(2)

SpecBadRange == BadRangeInit /\ [][BadRangeNext]_vars

\* request r, a GET or a PATCH, starts in this step
StartsRanged(r) == Starts(r) /\ req'[r].method \in {"GET", "PATCH"}

\* serving the request has called no file and made no cursor
NothingTouched(r) ==
    /\ req'[r].pc = "done"
    /\ ~req'[r].touched
    /\ handles' = handles
    /\ mux' = mux
    /\ cur' = cur

\* a client that was called with an empty buffer has an error in hand and
\* has transferred nothing
EmptyBufferFails ==
    \A i \in {1, 2} :
       (cli[i].calls > 0 /\ cli[i].pc # "wait") =>
          /\ cli[i].n = 0
          /\ cli[i].err # NoErr
          /\ cli[i].offset = 0
          /\ cli[i].got = << >>

(***************************************************************************)
(* C37 as stated: a ranged GET or PATCH whose X-Range header is not two    *)
(* dash-separated decimal integers, an offset >= 0 and a length >= 1, is   *)
(* answered 400 and calls no file; a client Read or Write with an empty    *)
(* buffer returns an error and transfers nothing.                          *)
(***************************************************************************)
C37_BadRangeIs400 ==
    [][/\ \A r \in {1, 2} :
             (StartsRanged(r) /\ ~TwoIntegers(req'[r].xrange)) =>
                (req'[r].status = StatusBadRequest /\ NothingTouched(r))
       /\ EmptyBufferFails']_vars

(***************************************************************************)
(* C37 amended: a PATCH, and a GET for an identifier that has a reader,    *)
(* whose X-Range header does not begin with two dash-separated decimal     *)
(* integers (each with an optional sign), or has a negative offset or a    *)
(* length below 1, is answered 400; such a GET for an identifier without a *)
(* reader is answered 404; either way no file is called and no cursor is   *)
(* made.  A header that begins with an offset >= 0, a dash and a length    *)
(* >= 1 is accepted whatever follows.  A client Read or Write with an      *)
(* empty buffer returns 0 and an error and transfers nothing.              *)
(***************************************************************************)
C37_BadRangeIs400Or404 ==
    [][/\ \A r \in {1, 2} : StartsRanged(r) =>
             /\ ~WellFormedRange(req'[r]) =>
                   /\ req'[r].status =
                         IF req'[r].method = "GET" /\ readers[theFile] = NoMux
                           THEN StatusNotFound ELSE StatusBadRequest
                   /\ NothingTouched(r)
             /\ WellFormedRange(req'[r]) => req'[r].status # StatusBadRequest
       /\ EmptyBufferFails']_vars

\* a GET with a length of 0 has been answered 400 with the reader registered
\* and the file where it was, and both clients have failed with their empty
\* buffers
C37_Witness ==
    /\ readers[theFile] # NoMux
    /\ writers[theFile] # NoMux
    /\ req[1].pc = "done"
    /\ req[1].method = "GET"
    /\ req[1].xrange = FormatRange(1, 0)
    /\ req[1].status = StatusBadRequest
    /\ handles["h1"].pos = 0
    /\ cli[1].pc = "failed"
    /\ cli[2].pc = "failed"

(***************************************************************************)
(* SpecCloseIO: closing is enabled or disabled for readers and for writers *)
(* independently.  The file h1 is registered as the reader and h1 or h2 as *)
(* the writer of the identifier, under ctx1; the owner of a file may close *)
(* it himself, after which a Close of the file returns an error; DELETE    *)
(* requests arrive, the context ends and the waiters run.                  *)
(***************************************************************************)
CloseIOInit ==
    /\ mux = [m \in MuxIds |-> FreeMux]
    /\ cur = [c \in CurIds |-> FreeCur]
    /\ readers = [id \in FileIDs |-> NoMux]
    /\ writers = [id \in FileIDs |-> NoMux]
    /\ \E r \in BOOLEAN, w \in BOOLEAN :
          fs = [DefaultFlags EXCEPT !.closeReaders = r, !.closeWriters = w]
    /\ req = [r \in ReqIds |-> IdleReq]
    /\ waiters = {}
    /\ LockIdle
    /\ ctxDone = [c \in Ctxs |-> FALSE]
    /\ lastReg = NoReg
    /\ last = NoOp
    /\ logical = [c \in CurIds |-> 0]
    /\ handles = InitHandles(Pattern(MaxSize), << >>)
    /\ ref = Pattern(MaxSize)
    /\ cli = [i \in ClientIds |-> NoClient]

\* the owner of the file h closes it
OwnerClose(h) ==
    /\ handles[h].closed = 0
    /\ handles' = [handles EXCEPT ![h] = h_Close(handles[h])]
    /\ UNCHANGED <<mux, cur, last, logical, ref>>
    /\ UNCHANGED srvVars

CloseIONext ==
    \/ handles["h1"].closed = 0 /\ RegisterReader(theFile, "h1", "ctx1")
    \/ \E h \in Handles :
          handles[h].closed = 0 /\ RegisterWriter(theFile, h, "ctx1")
    \/ \E h \in Handles : OwnerClose(h)
    \/ Cancel("ctx1")
    \/ \E wt \in waiters : Waiter(wt)
    \/ ServerStep(Request(1, securedRequest("DELETE", << >>, << >>)))
    \/ ServerStep(Respond(1))

SpecCloseIO == CloseIOInit /\ [][CloseIONext]_vars

\* the Close calls that removing the identifier's handles of the kinds
\* makes on the file h
ClosesOf(kinds, h) ==
    (IF "r" \in kinds /\ readers[theFile] # NoMux /\ fs.closeReaders
        /\ mux[readers[theFile]].h = h THEN 1 ELSE 0)
    + (IF "w" \in kinds /\ writers[theFile] # NoMux /\ fs.closeWriters
         /\ mux[writers[theFile]].h = h THEN 1 ELSE 0)

\* the handles of the kinds are removed, and the files are called Close as
\* often as ClosesOf says and not otherwise changed
Removes(kinds) ==
    /\ "r" \in kinds => readers'[theFile] = NoMux
    /\ "w" \in kinds => writers'[theFile] = NoMux
    /\ "r" \notin kinds => readers' = readers
    /\ "w" \notin kinds => writers' = writers
    /\ \A h \in Handles :
          handles'[h] = [handles[h] EXCEPT !.closed = @ + ClosesOf(kinds, h)]

(***************************************************************************)
(* C38: a DELETE removes the identifier's reader and writer and is         *)
(* answered 204 when there was one of them and 404 when there was none,    *)
(* whether closing is enabled for the kind or not and whether the Close of *)
(* the file succeeds or returns an error (the file is closed already);     *)
(* Close is called on a file once for each kind that is removed with       *)
(* closing enabled and never for a kind with closing disabled; the waiter  *)
(* of a registration removes its kind in the same way.                     *)
(***************************************************************************)
C38_RemovalDoesNotDependOnClose ==
    [][/\ (Starts(1) /\ req'[1].method = "DELETE") =>
             /\ Removes({"r", "w"})
             /\ req'[1].pc = "done"
             /\ req'[1].status =
                   IF readers[theFile] = NoMux /\ writers[theFile] = NoMux
                     THEN StatusNotFound ELSE StatusNoContent
       /\ \A wt \in waiters : wt \notin waiters' => Removes({wt.kind})]_vars

\* a DELETE has been answered 204 after the Close of a file that was closed
\* already, with closing enabled for readers and disabled for writers: the
\* reader's file was called Close again, the file of the writer that was
\* registered last was not, and no waiter has removed anything
C38_Witness ==
    /\ fs.closeReaders
    /\ ~fs.closeWriters
    /\ req[1].pc = "done"
    /\ req[1].method = "DELETE"
    /\ req[1].status = StatusNoContent
    /\ readers[theFile] = NoMux
    /\ writers[theFile] = NoMux
    /\ handles["h1"].closed = 2
    /\ handles["h2"].closed = 0
    /\ lastReg.kind = "w"
    /\ lastReg.h = "h2"
    /\ lastReg.err = NoErr
    /\ ~ctxDone["ctx1"]

(***************************************************************************)
(* SpecBuffered: the ranged write of the variant of the server that keeps  *)
(* io.WriterAt writers and copies the request body through a buffer of     *)
(* writeBufferSize bytes.  The handler's goroutine is thr["q1"]; its       *)
(* record holds the position in the handler and the locals of the loop,    *)
(* req[1] holds the response.  The other goroutines stay idle.             *)
(***************************************************************************)
BufferSizes == 1..MaxLen
BodyLengths == 0..MaxLen

\* the request body of n bytes
BodyOf(n) == [i \in 1..n |-> 6 + i]

\* (*os.File).WriteAt: the position of the file is not moved; an empty
\* slice is written without a system call
h_WriteAt(hd, p, off) ==
    IF p = << >> THEN [hd |-> hd, n |-> 0, err |-> NoErr]
    ELSE IF hd.closed > 0 THEN [hd |-> hd, n |-> 0, err |-> ErrClosed]
    ELSE [hd |-> [hd EXCEPT !.content = StoreAt(hd.content, off, p)],
          n |-> Len(p), err |-> NoErr]

BufferedFrame ==
    UNCHANGED <<mux, cur, readers, writers, fs, waiters, ctxDone, lastReg,
                last, logical, ref, cli, locks, io>>

\* the goroutine of the handler moves on
Loop(t) == thr' = [thr EXCEPT !["q1"] = t]

BufferedInit ==
    /\ mux = [m \in MuxIds |-> FreeMux]
    /\ cur = [c \in CurIds |-> FreeCur]
    /\ readers = [id \in FileIDs |-> NoMux]
    /\ writers = [id \in FileIDs |-> NoMux]
    /\ fs = DefaultFlags
    /\ waiters = {}
    /\ locks = NoLocks
    /\ io = NoIO
    /\ ctxDone = [c \in Ctxs |-> FALSE]
    /\ lastReg = NoReg
    /\ last = NoOp
    /\ logical = [c \in CurIds |-> 0]
    /\ ref = << >>
    /\ cli = [i \in ClientIds |-> NoClient]
    /\ \E closed \in {0, 1} :
          handles = [InitHandles(Pattern(1), << >>)
                        EXCEPT !["h1"].closed = closed]
    /\ \E xr \in {<<"x">>} \cup {FormatRange(0, l) : l \in 0..MaxLen} :
          req = [r \in ReqIds |->
                    IF r = 1 THEN [IdleReq EXCEPT !.method = "PATCH",
                                                  !.fileID = theFile,
                                                  !.xrange = xr]
                    ELSE IdleReq]
    /\ \E size \in BufferSizes, n \in BodyLengths, found \in BOOLEAN :
          thr = [t \in Threads |->
                    IF t = "q1"
                      THEN [pc |-> "idle", writeBufferSize |-> size,
                            body |-> BodyOf(n),
                            writer |-> IF found THEN "h1" ELSE NoHandle,
                            totalRead |-> 0, written |-> 0, read |-> 0,
                            buf |-> << >>]
                    ELSE IdleThread]

\* the handler returns with the response q
BufferedReturn(q) ==
    /\ req' = [req EXCEPT ![1] = Done(q)]
    /\ Loop([thr["q1"] EXCEPT !.pc = "done"])
    /\ UNCHANGED handles
    /\ BufferedFrame

\* the range is parsed and the writer is looked up
BufferedStart ==
    /\ thr["q1"].pc = "idle"
    /\ LET r == requestOffsetAndLength(req[1], req[1].xrange)
       IN  IF ~r.ok THEN BufferedReturn(r.q)
           ELSE IF thr["q1"].writer = NoHandle
             THEN BufferedReturn(WriteHeader(r.q, StatusNotFound))
           ELSE /\ req' = [req EXCEPT ![1] = [r.q EXCEPT !.pc = "run"]]
                /\ Loop([thr["q1"] EXCEPT !.pc = "outer"])
                /\ UNCHANGED handles
                /\ BufferedFrame

\* for totalRead < length { var read int64 ...
\* after the loop: the two comparisons and the 204
BufferedOuter ==
    /\ thr["q1"].pc = "outer"
    /\ LET t == thr["q1"]
           q == req[1]
       IN  IF t.totalRead < q.length
             THEN /\ Loop([t EXCEPT !.pc = "inner", !.read = 0, !.buf = << >>])
                  /\ UNCHANGED <<req, handles>>
                  /\ BufferedFrame
           ELSE IF t.totalRead # q.length
             THEN BufferedReturn(WriteText(WriteHeader(q, StatusBadRequest),
                                           "invalid body length"))
           ELSE IF t.totalRead # t.written
             THEN BufferedReturn(WriteText(
                      WriteHeader(q, StatusInternalServerError),
                      "invalid bytes written"))
           ELSE BufferedReturn(WriteHeader(
                      [q EXCEPT !.xr = <<q.off, t.written>>],
                      StatusNoContent))

\* for read < len(buf) { n, readErr := req.Body.Read(buf[read:]) ...
\* the body delivers n bytes, with io.EOF (eof) when they are its last or
\* when it has none left; io.EOF leaves the inner loop only
BufferedInner(n, eof) ==
    /\ thr["q1"].pc = "inner"
    /\ LET t == thr["q1"]
       IN  IF t.read >= t.writeBufferSize
             THEN /\ n = 0
                  /\ ~eof
                  /\ Loop([t EXCEPT !.pc = "write"])
           ELSE /\ n <= Min(Len(t.body), t.writeBufferSize - t.read)
                /\ (n = 0) => eof
                /\ eof => n = Len(t.body)
                /\ Loop([t EXCEPT
                       !.read = t.read + n,
                       !.buf = t.buf \o SubSeq(t.body, 1, n),
                       !.body = SubSeq(t.body, n + 1, Len(t.body)),
                       !.pc = IF eof THEN "write" ELSE "inner"])
    /\ UNCHANGED <<req, handles>>
    /\ BufferedFrame

\* req.Body.Read returns an error that is not io.EOF
BufferedReadError ==
    /\ thr["q1"].pc = "inner"
    /\ thr["q1"].read < thr["q1"].writeBufferSize
    /\ thr["q1"].body # << >>
    /\ BufferedReturn(writeErrorToResponseWriter(req[1], ErrUnexpectedEOF))

\* n, writeErr := writer.WriteAt(buf[:read], offset+written) and the sums
BufferedWrite ==
    /\ thr["q1"].pc = "write"
    /\ LET t == thr["q1"]
           q == req[1]
           r == h_WriteAt(handles[t.writer], t.buf, q.off + t.written)
       IN  IF r.err # NoErr
             THEN /\ req' = [req EXCEPT
                                ![1] = Done(writeErrorToResponseWriter(q, r.err))]
                  /\ Loop([t EXCEPT !.pc = "done"])
                  /\ UNCHANGED handles
           ELSE /\ handles' = [handles EXCEPT ![t.writer] = r.hd]
                /\ Loop([t EXCEPT !.written = t.written + r.n,
                                  !.totalRead = t.totalRead + t.read,
                                  !.pc = "outer"])
                /\ UNCHANGED req
    /\ BufferedFrame

BufferedNext ==
    \/ BufferedStart
    \/ BufferedOuter
    \/ \E n \in 0..MaxLen, eof \in BOOLEAN : BufferedInner(n, eof)
    \/ BufferedReadError
    \/ BufferedWrite

SpecBuffered == BufferedInit /\ [][BufferedNext]_vars

\* the goroutine of a handler is scheduled as long as it can take a step
SpecBufferedFair == SpecBuffered /\ WF_vars(BufferedNext)

(***************************************************************************)
(* C39: the buffered ranged-write handler returns for every request; when  *)
(* the body ends before the declared length has been read it answers 400.  *)
(***************************************************************************)
C39_BufferedWriteReturns == <>(thr["q1"].pc = "done")

\* the body has ended before the declared length was read, the handler is
\* at the head of its loop again and nothing is left that could end it
ShortBodyAtLoopHead ==
    /\ thr["q1"].pc = "outer"
    /\ thr["q1"].body = << >>
    /\ thr["q1"].totalRead < req[1].length
    /\ thr["q1"].totalRead > 0

(***************************************************************************)
(* C40: the offset of a client is never negative, whatever was sought,     *)
(* read or written: a Seek to a position before the start of the file      *)
(* fails and leaves the offset, and no request carries a negative offset   *)
(* in its range.                                                           *)
(***************************************************************************)
C40_OffsetNeverNegative ==
    /\ cli[1].offset >= 0
    /\ req[1].xrange # << >> => ScanRange(req[1].xrange).offset >= 0

\* a Read has been sent from a negative offset and was answered 400
NegativeOffsetSent ==
    /\ cli[1].offset < 0
    /\ req[1].pc = "done"
    /\ req[1].method = "GET"
    /\ ScanRange(req[1].xrange).offset < 0
    /\ req[1].status = StatusBadRequest

====
